---- MODULE Spec2Model ----
(***************************************************************************)
(* A model of the newsletter-generator backend:                            *)
(*   - the context-aware orchestrator (ContextAwareAIService, in its two   *)
(*     modules context_aware_ai_service.py and                             *)
(*     context_aware_ai_service_fixed.py),                                 *)
(*   - the hallucination guard of AIService,                               *)
(*   - the newsletter endpoints that store generated and updated content.  *)
(* Strings of the program are kept as strings; a user message is the set   *)
(* of trigger phrases it contains; floats are hundredths.                  *)
(***************************************************************************)
EXTENDS Integers, Sequences, FiniteSets, TLC

VARIABLES
    impl,                       \* which orchestrator module is deployed
    credential,                 \* whether an OpenAI credential is configured
    conversation_history,       \* ContextAwareAIService.conversation_history
    current_newsletter_state,   \* ContextAwareAIService.current_newsletter_state
    req,                        \* the process_user_request calls in flight
    running,                    \* the coroutine holding the event loop (0: none)
    clock,                      \* requests submitted so far
    limit,                      \* requests the run submits at most
    guard_in,                   \* inputs of _validate_and_enhance_content
    guard_out,                  \* its outcome
    newsletter,                 \* the newsletters document of the store
    searched,                   \* events the search provider has returned
    task,                       \* generate_newsletter_task of the document
    upd,                        \* update_newsletter calls in flight
    chat_message,               \* the message given to ChatService._analyze_intent
    intent,                     \* the intent it returned
    reasoning,                  \* the chat_with_reasoning call of AIChatService
    images,                     \* a call of the images validator of EventDetails
    context_ai_service,         \* the module global of context_chat.py
    orchestrators,              \* the ContextAwareAIService objects created so far
    calls,                      \* the /context-chat request of each client
    supplied,                   \* the maps /set-preferences was called with
    scraper,                    \* a call of EnhancedEventScraper.search_events
    conversation,               \* the conversations document of the newsletter
    chats,                      \* add_message and chat_with_ai calls in flight
    act,                        \* the newsletter_action call
    toolrun                     \* the tool calls of a chat_with_reasoning call

svcVars == <<impl, credential, conversation_history, current_newsletter_state,
             req, running, clock, limit>>
guardVars == <<guard_in, guard_out>>
dbVars == <<newsletter, searched, task, upd>>
chatVars == <<chat_message, intent>>
ctxVars == <<context_ai_service, orchestrators, calls, supplied>>
convVars == <<conversation, chats, act>>
moreVars == <<scraper, convVars, toolrun>>
extVars == <<chatVars, reasoning, images, ctxVars, moreVars>>
vars == <<impl, credential, conversation_history, current_newsletter_state,
          req, running, clock, limit, guard_in, guard_out,
          newsletter, searched, task, upd, chat_message, intent, reasoning, images,
          context_ai_service, orchestrators, calls, supplied, scraper,
          conversation, chats, act, toolrun>>

(***************************************************************************)
(* Bounds of the model.                                                    *)
(***************************************************************************)
MaxInFlight == 2
MaxRequests == 2
HistoryTurns == 61
MaxEvents == 2
MaxGuardEvents == 2
MaxUpdates == 2

(***************************************************************************)
(* Program constants.                                                      *)
(***************************************************************************)
HistoryCap == 50
HistoryWindow == 10
ConfidenceThreshold == 70
SummaryBudget == 200

Missing == "<missing>"
Null == "<null>"
None == "<None>"

Min(a, b) == IF a < b THEN a ELSE b
Max(a, b) == IF a > b THEN a ELSE b

\* s[-n:] of Python
LastN(s, n) == SubSeq(s, Max(1, Len(s) - n + 1), Len(s))

SeqsUpTo(S, n) == UNION {[1..k -> S] : k \in 0..n}

\* str.lower() of a text given as its words
LowerWord(w) ==
    CASE w = "Find" -> "find"
      [] w = "Weekly" -> "weekly"
      [] w = "Generate" -> "generate"
      [] w = "TS1" -> "ts1"
      [] w = "3BA" -> "3ba"
      [] w = "HELP" -> "help"
      [] w = "Events" -> "events"
      [] w = "Community" -> "community"
      [] w = "Craft" -> "craft"
      [] w = "Fair" -> "fair"
      [] w = "Avalon" -> "avalon"
      [] w = "Center" -> "center"
      [] w = "Saturday," -> "saturday,"
      [] w = "November" -> "november"
      [] w = "All" -> "all"
      [] w = "Snacks" -> "snacks"
      [] w = "Bring" -> "bring"
      [] w = "**Date:**" -> "**date:**"
      [] w = "**Fun Day**" -> "**fun day**"
      [] OTHER -> w
Lower(words) == [i \in 1..Len(words) |-> LowerWord(words[i])]

\* the words a, in a row, from the j-th word of msg on
StartsAt(msg, j, a) ==
    /\ j + Len(a) - 1 <= Len(msg)
    /\ \A k \in 1..Len(a) : msg[j + k - 1] = a[k]

\* part in words, of Python, for texts given as their words
Contains(words, part) ==
    \E j \in 1..Len(words) : StartsAt(words, j, part)

(***************************************************************************)
(* Events.  A field that the dict does not hold is Missing, a JSON null is *)
(* Null, and "" is the empty string.                                       *)
(***************************************************************************)
Event(t, d, l, dt, c) ==
    [event_title |-> t, description |-> d, location |-> l, date |-> dt, cost |-> c]

\* what the scraper's sub-searches hold (enhanced_event_scraper.py)
FunDay == Event("Free Family Fun Day", "A free family fun day", "Community Centre", "day+2", "Free")
StoryTime == Event("Children's Story Time", "Story time and crafts", "Public Library", "day+4", "Free")
Cooking == Event("Family Cooking Workshop", "Cook budget meals", "Community Kitchen", "day+10", "Free")
ProviderEvents == {FunDay, StoryTime, Cooking}

\* what only the generative-text provider writes
Avalon == Event("Kids Science Workshop", "Hands-on science", "Avalon Library", "day+3", "Free")
Invented == Event("Pottery Evening", "Throw a pot", "Riverside Studio", "day+5", "5 pounds")
NoCost == Event("Chess Club", "Weekly chess", "Scout Hut", "day+1", Missing)
NoPlace == Event("Street Party", "Bring a dish", "", "day+6", "Free")
NullTitle == Event(Null, "Untitled", "Somewhere", "day+2", "Free")
GeneratedEvents == {Avalon, Invented, NoCost, NoPlace, NullTitle}

(***************************************************************************)
(* The hallucination guard of AIService.                                   *)
(***************************************************************************)
Truthy(v) == v \notin {Missing, Null, ""}

\* substrings of the lower-cased title and location that mark a fake event
FakeTitles == {"Kids Science Workshop"}
FakeLocations == {"Avalon Library", "Community Kitchen"}
HasFakeIndicator(e) == e.event_title \in FakeTitles \/ e.location \in FakeLocations

\* event.get('event_title', '').lower() and event.get('location', '').lower()
LowerRaises(e) == e.event_title = Null \/ e.location = Null

\* the loop over the generated events: it raises on a null title or
\* location, stops at the first fake event, or finds none
RECURSIVE ScanGenerated(_, _)
ScanGenerated(evs, i) ==
    IF i > Len(evs) THEN "clean"
    ELSE IF LowerRaises(evs[i]) THEN "raise"
    ELSE IF HasFakeIndicator(evs[i]) THEN "fake"
    ELSE ScanGenerated(evs, i + 1)

\* _validate_event_structure
ValidateEventStructure(e) ==
    /\ e.event_title # Missing /\ Truthy(e.event_title)
    /\ e.description # Missing /\ Truthy(e.description)
    /\ e.location # Missing /\ Truthy(e.location)
    /\ e.date # Missing /\ Truthy(e.date)

\* a guard that keeps the generated events when nothing was verified
KeepGeneratedWhenNoneVerified(generated, verified_events) ==
    IF verified_events # <<>> THEN verified_events ELSE generated

\* content['events'] = verified_events if verified_events else []
UseOnlyVerified(generated, verified_events) ==
    IF verified_events # <<>> THEN verified_events ELSE <<>>

\* _validate_and_enhance_content: the events it leaves in the content, or a raise
ValidateAndEnhanceContent(has_events, generated, verified_events) ==
    LET scan == IF has_events THEN ScanGenerated(generated, 1) ELSE "clean"
        after_scan == IF scan = "fake" THEN <<>> ELSE generated
        replaced == UseOnlyVerified(after_scan, verified_events)
    IN  IF scan = "raise" THEN [raised |-> TRUE, events |-> <<>>]
        ELSE [raised |-> FALSE, events |-> SelectSeq(replaced, ValidateEventStructure)]

\* NewsletterContent(**content): every event must validate as EventDetails
EventDetailsValid(e) ==
    \A v \in {e.event_title, e.description, e.location, e.cost, e.date} :
        v \notin {Missing, Null}

(***************************************************************************)
(* The orchestrator: ContextAwareAIService.                                *)
(***************************************************************************)
Impls == {"base", "fixed"}

ActionTypes ==
    {"generate_newsletter", "add_events", "change_events", "change_tone",
     "delete_events", "search_web", "search_events", "customize_content",
     "respond_in_chat", "update_newsletter"}

\* a user message is the set of the trigger phrases and words it contains;
\* NotAStr is a message that is no string (None)
NotAStr == {None}
\* the context argument: a mapping (with or without "postcode") or something else
NoContext == [mapping |-> TRUE, postcode |-> Missing]
PostcodeContext == [mapping |-> TRUE, postcode |-> "SW1A 1AA"]
NotADict == [mapping |-> FALSE, postcode |-> Missing]

GenPhrases ==
    {"generate newsletter", "create newsletter", "make newsletter",
     "new newsletter", "generate a newsletter", "create a newsletter"}
AddPhrases ==
    {"add more events", "add events", "more events", "find more events",
     "add additional events", "include more events"}
TonePhrases ==
    {"change tone", "change the tone", "make it more", "tone to",
     "more casual", "more professional", "more friendly", "more formal"}
DeletePhrases ==
    {"delete events", "remove events", "delete event", "remove event",
     "delete any events", "remove any events", "delete expensive",
     "remove expensive", "delete paid", "remove paid"}
SearchEventsPhrases ==
    {"find events", "search events", "what events", "events happening",
     "events available", "show me events", "list events"}
WebPhrases ==
    {"search for", "look up", "find information", "what is",
     "tell me about", "search web", "google"}

\* the trigger phrases and words the analysis looks for, each as its words
TriggerPhrases ==
    GenPhrases \cup AddPhrases \cup TonePhrases \cup DeletePhrases
    \cup SearchEventsPhrases \cup WebPhrases
    \cup {"weekly", "monthly", "casual", "friendly", "professional", "formal", "enthusiastic", "expensive", "cost"}
PhraseWords(p) ==
    CASE p = "generate newsletter" -> <<"generate", "newsletter">>
      [] p = "create newsletter" -> <<"create", "newsletter">>
      [] p = "make newsletter" -> <<"make", "newsletter">>
      [] p = "new newsletter" -> <<"new", "newsletter">>
      [] p = "generate a newsletter" -> <<"generate", "a", "newsletter">>
      [] p = "create a newsletter" -> <<"create", "a", "newsletter">>
      [] p = "add more events" -> <<"add", "more", "events">>
      [] p = "add events" -> <<"add", "events">>
      [] p = "more events" -> <<"more", "events">>
      [] p = "find more events" -> <<"find", "more", "events">>
      [] p = "add additional events" -> <<"add", "additional", "events">>
      [] p = "include more events" -> <<"include", "more", "events">>
      [] p = "change tone" -> <<"change", "tone">>
      [] p = "change the tone" -> <<"change", "the", "tone">>
      [] p = "make it more" -> <<"make", "it", "more">>
      [] p = "tone to" -> <<"tone", "to">>
      [] p = "more casual" -> <<"more", "casual">>
      [] p = "more professional" -> <<"more", "professional">>
      [] p = "more friendly" -> <<"more", "friendly">>
      [] p = "more formal" -> <<"more", "formal">>
      [] p = "delete events" -> <<"delete", "events">>
      [] p = "remove events" -> <<"remove", "events">>
      [] p = "delete event" -> <<"delete", "event">>
      [] p = "remove event" -> <<"remove", "event">>
      [] p = "delete any events" -> <<"delete", "any", "events">>
      [] p = "remove any events" -> <<"remove", "any", "events">>
      [] p = "delete expensive" -> <<"delete", "expensive">>
      [] p = "remove expensive" -> <<"remove", "expensive">>
      [] p = "delete paid" -> <<"delete", "paid">>
      [] p = "remove paid" -> <<"remove", "paid">>
      [] p = "find events" -> <<"find", "events">>
      [] p = "search events" -> <<"search", "events">>
      [] p = "what events" -> <<"what", "events">>
      [] p = "events happening" -> <<"events", "happening">>
      [] p = "events available" -> <<"events", "available">>
      [] p = "show me events" -> <<"show", "me", "events">>
      [] p = "list events" -> <<"list", "events">>
      [] p = "search for" -> <<"search", "for">>
      [] p = "look up" -> <<"look", "up">>
      [] p = "find information" -> <<"find", "information">>
      [] p = "what is" -> <<"what", "is">>
      [] p = "tell me about" -> <<"tell", "me", "about">>
      [] p = "search web" -> <<"search", "web">>
      [] p = "google" -> <<"google">>
      [] p = "weekly" -> <<"weekly">>
      [] p = "monthly" -> <<"monthly">>
      [] p = "casual" -> <<"casual">>
      [] p = "friendly" -> <<"friendly">>
      [] p = "professional" -> <<"professional">>
      [] p = "formal" -> <<"formal">>
      [] p = "enthusiastic" -> <<"enthusiastic">>
      [] p = "expensive" -> <<"expensive">>
      [] p = "cost" -> <<"cost">>

\* the message as the analysis sees it: the trigger phrases message_lower holds
PhrasesIn(words) == {p \in TriggerPhrases : Contains(Lower(words), PhraseWords(p))}

\* "generate a weekly newsletter for TS1 3BA"
WeeklyRequest == PhrasesIn(<<"generate", "a", "weekly", "newsletter", "for", "TS1", "3BA">>)
\* the message generate_newsletter_direct builds from its default arguments
DirectRequest ==
    PhrasesIn(<<"Generate", "a", "weekly", "newsletter", "for", "families", "with",
                "children", "in", "social", "housing", "in", "TS1", "3BA", "within",
                "5.0", "miles", "with", "a", "friendly", "and", "informative", "tone">>)

HasAny(msg, phrases) == msg \cap phrases # {}

Params(pc, rad, fr, aud, tn, cr, q) ==
    [postcode |-> pc, radius |-> rad, frequency |-> fr, target_audience |-> aud,
     tone |-> tn, criteria |-> cr, query |-> q]
NoParams == Params(Missing, Missing, Missing, Missing, Missing, Missing, Missing)

ActionDecision(a, t, p, r, c) ==
    [action_type |-> a, target |-> t, parameters |-> p, reasoning |-> r,
     confidence |-> c]

CtxGet(ctx, default) == IF ctx.postcode = Missing THEN default ELSE ctx.postcode

FrequencyOf(msg) ==
    IF "weekly" \in msg THEN "weekly"
    ELSE IF "monthly" \in msg THEN "monthly" ELSE "weekly"

GenerateDecision(msg, ctx) ==
    ActionDecision("generate_newsletter", "newsletter",
        Params(CtxGet(ctx, "TS1 3BA"), "5.0", FrequencyOf(msg),
               "families with children in social housing", Missing, Missing, Missing),
        <<"rule", "generate_newsletter", FrequencyOf(msg)>>, 90)

DefaultDecision ==
    ActionDecision("respond_in_chat", "chat", NoParams,
                   <<"rule", "respond_in_chat">>, 50)

\* context_aware_ai_service.py
RuleBasedBase(msg, ctx) ==
    IF HasAny(msg, GenPhrases) THEN GenerateDecision(msg, ctx) ELSE DefaultDecision

ToneOf(msg) ==
    IF "casual" \in msg \/ "friendly" \in msg THEN "casual and friendly"
    ELSE IF "professional" \in msg \/ "formal" \in msg THEN "professional and informative"
    ELSE IF "enthusiastic" \in msg THEN "enthusiastic and engaging"
    ELSE "friendly and informative"

CriteriaOf(msg) ==
    IF "expensive" \in msg \/ "cost" \in msg THEN "[expensive events]" ELSE "[]"

\* context_aware_ai_service_fixed.py
RuleBasedFixed(msg, ctx) ==
    IF HasAny(msg, GenPhrases) THEN GenerateDecision(msg, ctx)
    ELSE IF HasAny(msg, AddPhrases) THEN
        ActionDecision("add_events", "newsletter",
            Params(CtxGet(ctx, "TS1 3BA"), "10.0", "weekly", Missing, Missing, Missing, Missing),
            <<"rule", "add_events">>, 85)
    ELSE IF HasAny(msg, TonePhrases) THEN
        ActionDecision("change_tone", "newsletter",
            Params(Missing, Missing, Missing, Missing, ToneOf(msg), Missing, Missing),
            <<"rule", "change_tone", ToneOf(msg)>>, 80)
    ELSE IF HasAny(msg, DeletePhrases) THEN
        ActionDecision("delete_events", "newsletter",
            Params(Missing, Missing, Missing, Missing, Missing, CriteriaOf(msg), Missing),
            <<"rule", "delete_events", CriteriaOf(msg)>>, 80)
    ELSE IF HasAny(msg, SearchEventsPhrases) THEN
        ActionDecision("search_events", "chat",
            Params(CtxGet(ctx, "TS1 3BA"), "5.0", "weekly", Missing, Missing, Missing, Missing),
            <<"rule", "search_events">>, 80)
    ELSE IF HasAny(msg, WebPhrases) THEN
        ActionDecision("search_web", "chat",
            Params(Missing, Missing, Missing, Missing, Missing, Missing, "user_message"),
            <<"rule", "search_web">>, 75)
    ELSE DefaultDecision

_rule_based_intent_analysis(im, msg, ctx) ==
    IF im = "base" THEN RuleBasedBase(msg, ctx) ELSE RuleBasedFixed(msg, ctx)

(***************************************************************************)
(* Generative escalation of the intent analysis (fixed module only).       *)
(***************************************************************************)
Reply(ok, json, a, t, r, hc, c) ==
    [ok |-> ok, json |-> json, action_type |-> a, target |-> t, reasoning |-> r,
     has_confidence |-> hc, confidence |-> c]

\* what the chat-completion call may give back: a failure of the call, text
\* that is no JSON, JSON without a key, a name outside the enum (the prompt
\* lists the upper-case names), and well-formed decisions with any target
EscalationReplies ==
    {Reply(FALSE, FALSE, Missing, Missing, Missing, FALSE, 0),
     Reply(TRUE, FALSE, Missing, Missing, Missing, FALSE, 0),
     Reply(TRUE, TRUE, Missing, "chat", "why", FALSE, 0),
     Reply(TRUE, TRUE, "ADD_EVENTS", "newsletter", "why", TRUE, 90),
     Reply(TRUE, TRUE, "respond_in_chat", Missing, "why", FALSE, 0),
     Reply(TRUE, TRUE, "respond_in_chat", "chat", Missing, FALSE, 0),
     Reply(TRUE, TRUE, "respond_in_chat", "chat", "why", TRUE, 60)}
    \cup {Reply(TRUE, TRUE, a, t, "why", FALSE, 0) :
            a \in {"add_events", "change_events", "search_events", "update_newsletter"},
            t \in {"chat", "newsletter", "email"}}

\* a fallback that answers in chat with no confidence at all
FallbackWithoutConfidence(rule_based_decision) ==
    [rule_based_decision EXCEPT !.confidence = 0]

\* the except branch: the rule-based decision, as it is
EscalationFallback(rule_based_decision) == rule_based_decision

\* ActionDecision(action_type=ActionType(json["action_type"]), target=json["target"], ...)
EscalationDecision(rule_based_decision, reply) ==
    IF \/ ~reply.ok
       \/ ~reply.json
       \/ reply.action_type = Missing
       \/ reply.action_type \notin ActionTypes
       \/ reply.target = Missing
       \/ reply.reasoning = Missing
    THEN EscalationFallback(rule_based_decision)
    ELSE ActionDecision(reply.action_type, reply.target, NoParams, <<"llm", reply.reasoning>>,
                        IF reply.has_confidence THEN reply.confidence ELSE 80)

EscalationFailed(reply) ==
    \/ ~reply.ok
    \/ ~reply.json
    \/ reply.action_type = Missing
    \/ reply.action_type \notin ActionTypes
    \/ reply.target = Missing
    \/ reply.reasoning = Missing

(***************************************************************************)
(* Results of the action handlers.                                         *)
(***************************************************************************)
Result(type, error, events, strlen) ==
    [type |-> type, error |-> error, events |-> events, strlen |-> strlen]
ErrorResult(e) == Result("error", e, <<>>, 60)
NoResult == Result(None, Missing, <<>>, 0)
NoDecision == ActionDecision(None, None, NoParams, <<>>, 0)
NoEnvelope == [none |-> TRUE]
NoNewsletter == [exists |-> FALSE, events |-> <<>>, tone |-> Missing]

\* the handlers _execute_action knows
Handlers(im) ==
    IF im = "base" THEN {"generate_newsletter", "respond_in_chat"}
    ELSE {"generate_newsletter", "search_events", "update_newsletter", "change_tone",
          "add_events", "delete_events", "search_web", "respond_in_chat"}

\* AIService, as the repository defines it
AIServiceMethods ==
    {"generate_newsletter", "_create_enhanced_system_prompt", "_create_enhanced_user_prompt",
     "_validate_and_enhance_content", "_validate_event_structure", "update_newsletter",
     "chat_response"}

\* the lists EnhancedEventScraper.search_events returns: no duplicates, by date
DateRank(e) ==
    CASE e = FunDay -> 2
      [] e = StoryTime -> 4
      [] e = Cooking -> 10
      [] OTHER -> 0

SearchResults ==
    {evs \in SeqsUpTo(ProviderEvents, MaxEvents) :
        \A i \in 1..Len(evs) : \A j \in 1..Len(evs) :
            i < j => DateRank(evs[i]) < DateRank(evs[j])}

EventsResult(evs) == Result("events", Missing, evs, 40 + 150 * Len(evs))

(***************************************************************************)
(* The action handlers.  A handler either finishes with a result (and the  *)
(* newsletter state it leaves) or suspends at a collaborator await.        *)
(***************************************************************************)
Finished(result, state) == [next |-> "record", result |-> result, state |-> state]
Suspended(at, state) == [next |-> at, result |-> NoResult, state |-> state]

\* _generate_newsletter up to the await of scraper.search_events
GenerateNewsletterStart(cred, p, state) ==
    IF ~cred THEN {Finished(ErrorResult("The api_key client option must be set"), state)}
    ELSE IF p.postcode = Missing THEN {Finished(ErrorResult("'postcode'"), state)}
    ELSE IF p.frequency = Missing THEN {Finished(ErrorResult("'frequency'"), state)}
    ELSE {Suspended("await_search", state)}

\* a generation that stores the state before the content call
StoreThenGenerate(p, state, evs) ==
    Finished(ErrorResult("'AIService' object has no attribute 'generate_newsletter_content'"),
             [exists |-> TRUE, events |-> evs, tone |-> Missing])

\* _generate_newsletter after the search: the content call, then the store
GenerateNewsletterFinish(p, state, evs) ==
    IF "generate_newsletter_content" \notin AIServiceMethods
    THEN Finished(ErrorResult("'AIService' object has no attribute 'generate_newsletter_content'"),
                  state)
    ELSE Finished(Result("newsletter", Missing, evs, 400 + 150 * Len(evs)),
                  [exists |-> TRUE, events |-> evs, tone |-> Missing])

\* _search_family_events
SearchFamilyEventsStart(p, state) ==
    IF p.postcode = Missing THEN {Finished(ErrorResult("'postcode'"), state)}
    ELSE IF p.frequency = Missing THEN {Finished(ErrorResult("'frequency'"), state)}
    ELSE {Suspended("await_search", state)}

SearchFamilyEventsFinish(state, evs) == Finished(EventsResult(evs), state)

\* _update_newsletter (the decision carries no "updates")
UpdateNewsletter(state) ==
    IF ~state.exists
    THEN {Finished(ErrorResult("No newsletter to update. Please generate a newsletter first."), state)}
    ELSE {Finished(Result("message", Missing, <<>>, 70), state)}

\* _change_newsletter_tone
ChangeNewsletterTone(cred, p, state) ==
    IF ~state.exists
    THEN {Finished(ErrorResult("No newsletter to modify. Please generate a newsletter first."), state)}
    ELSE IF ~cred THEN {Finished(ErrorResult("The api_key client option must be set"), state)}
    ELSE {Finished(ErrorResult("Expecting value"), state),
          Finished(Result("message", Missing, <<>>, 300),
                   [state EXCEPT !.tone = IF p.tone = Missing
                                          THEN "friendly and informative" ELSE p.tone])}

Titles(evs) == {evs[i].event_title : i \in 1..Len(evs)}

\* an addition that takes every event found
AppendAll(state, evs) ==
    IF state.exists /\ evs # <<>>
    THEN Finished(Result("message", Missing, evs, 60 + 150 * Len(evs)),
                  [state EXCEPT !.events = state.events \o evs])
    ELSE Finished(EventsResult(evs), state)

\* _add_events_to_newsletter after its search
AddEventsFinish(state, evs) ==
    IF state.exists /\ evs # <<>>
    THEN LET unique_new_events ==
                 SelectSeq(evs, LAMBDA e : e.event_title \notin Titles(state.events))
         IN Finished(Result("message", Missing, unique_new_events,
                            60 + 150 * Len(unique_new_events)),
                     [state EXCEPT !.events = state.events \o unique_new_events])
    ELSE Finished(EventsResult(evs), state)

\* _delete_events_from_newsletter (the decision carries no "event_ids")
DeleteEvents(state) ==
    IF ~state.exists THEN {Finished(ErrorResult("No newsletter to modify"), state)}
    ELSE {Finished(Result("message", Missing, <<>>, 70), state)}

\* _web_search up to the await of the HTTP get
WebSearchStart(p, state) ==
    IF p.query = Missing THEN {Finished(ErrorResult("'query'"), state)}
    ELSE {Suspended("await_web", state)}

WebSearchFinish(state) ==
    {Finished(Result("web", Missing, <<>>, 90), state),
     Finished(Result("web", Missing, <<>>, 1200), state),
     Finished(ErrorResult("Search failed"), state),
     Finished(ErrorResult("timed out"), state)}

\* _generate_chat_response
GenerateChatResponse(im, cred, state) ==
    IF im = "base" THEN {Finished(Result("chat_response", Missing, <<>>, 120), state)}
    ELSE IF ~cred THEN {Finished(ErrorResult("The api_key client option must be set"), state)}
    ELSE {Finished(Result("chat_response", Missing, <<>>, 700), state),
          Finished(ErrorResult("Request timed out."), state)}

UnknownAction(action, state) ==
    {Finished(ErrorResult("Unknown action type"), state)}

\* _execute_action: the handler of the action type, or the else branch
ExecuteAction(im, cred, action, state) ==
    LET a == action.action_type
        p == action.parameters
    IN  IF a \notin Handlers(im) THEN UnknownAction(action, state)
        ELSE CASE a = "generate_newsletter" -> GenerateNewsletterStart(cred, p, state)
               [] a = "search_events" -> SearchFamilyEventsStart(p, state)
               [] a = "update_newsletter" -> UpdateNewsletter(state)
               [] a = "change_tone" -> ChangeNewsletterTone(cred, p, state)
               [] a = "add_events" -> {Suspended("await_search", state)}
               [] a = "delete_events" -> DeleteEvents(state)
               [] a = "search_web" -> WebSearchStart(p, state)
               [] a = "respond_in_chat" -> GenerateChatResponse(im, cred, state)

\* the handler that awaited scraper.search_events goes on with the list
AfterSearch(action, state, evs) ==
    CASE action.action_type = "generate_newsletter" ->
            GenerateNewsletterFinish(action.parameters, state, evs)
      [] action.action_type = "search_events" -> SearchFamilyEventsFinish(state, evs)
      [] action.action_type = "add_events" -> AddEventsFinish(state, evs)

(***************************************************************************)
(* process_user_request, stage by stage.  A request holds the event loop   *)
(* (running) from its start to its next await and from a resumption to the *)
(* following await or its return.                                          *)
(***************************************************************************)
Slots == 1..MaxInFlight

FreeSlot ==
    [pc |-> "free", seq |-> 0, user_message |-> {}, context |-> NoContext,
     rule_based_decision |-> NoDecision, action_decision |-> NoDecision,
     result |-> NoResult, envelope |-> NoEnvelope, outcome |-> "pending",
     escalation |-> "none", raised |-> "none"]

SuccessEnvelope(action, result) ==
    [success |-> TRUE, action_taken |-> action.action_type, target |-> action.target,
     reasoning |-> action.reasoning, result |-> result, confidence |-> action.confidence]

FailureEnvelope(e) ==
    [success |-> FALSE, error |-> e,
     fallback_response |-> "I encountered an error processing your request."]

\* a top level that lets the exception through
Reraise(e) == [outcome |-> "raised", envelope |-> NoEnvelope]

\* the except clause of process_user_request
ProcessUserRequestExcept(e) == [outcome |-> "returned", envelope |-> FailureEnvelope(e)]

\* a summary that is str(result), whatever its length
WholeResult(result) == [of |-> result.type, len |-> result.strlen]

\* str(result)[:200] + "..." if len(str(result)) > 200 else str(result)
ResultSummary(result) ==
    [of |-> result.type,
     len |-> IF result.strlen > SummaryBudget THEN SummaryBudget + 3 ELSE result.strlen]

Turn(r, now) ==
    [timestamp |-> now, user_message |-> r.user_message,
     action_taken |-> r.action_decision.action_type, target |-> r.action_decision.target,
     result_summary |-> ResultSummary(r.result)]

\* a truncation that keeps the oldest turns
KeepOldestTurns(history, turn) ==
    LET appended == Append(history, turn)
    IN  IF Len(appended) > HistoryCap THEN SubSeq(appended, 1, HistoryCap) ELSE appended

\* a record step that appends the turn twice
RecordTwice(history, turn) ==
    LET appended == Append(Append(history, turn), turn)
    IN  IF Len(appended) > HistoryCap THEN LastN(appended, HistoryCap) ELSE appended

\* _update_context_memory: append, then keep the last HistoryCap turns
RecordTurn(history, turn) ==
    LET appended == Append(history, turn)
    IN  IF Len(appended) > HistoryCap THEN LastN(appended, HistoryCap) ELSE appended

\* an accessor that hands out the whole stored history
WholeHistory(history) == history

\* get_conversation_history
GetConversationHistory(history) == LastN(history, HistoryWindow)

Raise(s, stage, e) ==
    LET caught == ProcessUserRequestExcept(e)
    IN  /\ req' = [req EXCEPT ![s].pc = "done", ![s].raised = stage,
                              ![s].outcome = caught.outcome,
                              ![s].envelope = caught.envelope]
        /\ running' = 0

Submit(s, message, context) ==
    /\ running = 0
    /\ clock < limit
    /\ req[s].pc \in {"free", "done"}
    /\ \A t \in Slots : t < s => req[t].pc \notin {"free", "done"}
    /\ clock' = clock + 1
    /\ req' = [req EXCEPT ![s] = [FreeSlot EXCEPT !.pc = "extract", !.seq = clock + 1,
                                                  !.user_message = message,
                                                  !.context = context]]
    /\ running' = s
    /\ UNCHANGED <<impl, credential, conversation_history, current_newsletter_state, limit>>
    /\ UNCHANGED <<guardVars, dbVars, extVars>>

\* _extract_context: {..., **provided_context}
ExtractContext(s) ==
    /\ running = s
    /\ req[s].pc = "extract"
    /\ IF ~req[s].context.mapping
       THEN Raise(s, "extract", "argument after ** must be a mapping")
       ELSE /\ req' = [req EXCEPT ![s].pc = "classify"]
            /\ UNCHANGED running
    /\ UNCHANGED <<impl, credential, conversation_history, current_newsletter_state,
                   clock, limit>>
    /\ UNCHANGED <<guardVars, dbVars, extVars>>

\* _analyze_intent_and_decide_action up to the escalation
AnalyzeIntent(s) ==
    /\ running = s
    /\ req[s].pc = "classify"
    /\ IF req[s].user_message = NotAStr
       THEN Raise(s, "classify", "'NoneType' object has no attribute 'lower'")
       ELSE LET rb == _rule_based_intent_analysis(impl, req[s].user_message, req[s].context)
            IN  /\ req' = [req EXCEPT
                       ![s].rule_based_decision = rb,
                       ![s].action_decision = rb,
                       ![s].pc = IF impl = "base" \/ rb.confidence > ConfidenceThreshold
                                 THEN "dispatch" ELSE "escalate"]
                /\ UNCHANGED running
    /\ UNCHANGED <<impl, credential, conversation_history, current_newsletter_state,
                   clock, limit>>
    /\ UNCHANGED <<guardVars, dbVars, extVars>>

\* the GPT-4 fallback of _analyze_intent_and_decide_action (a blocking call)
Escalate(s, replies) ==
    /\ running = s
    /\ req[s].pc = "escalate"
    /\ \E reply \in replies :
          /\ credential \/ ~reply.ok
          /\ req' = [req EXCEPT
                 ![s].action_decision = EscalationDecision(req[s].rule_based_decision, reply),
                 ![s].escalation = IF EscalationFailed(reply) THEN "failed" ELSE "accepted",
                 ![s].pc = "dispatch"]
    /\ UNCHANGED <<impl, credential, conversation_history, current_newsletter_state,
                   running, clock, limit>>
    /\ UNCHANGED <<guardVars, dbVars, extVars>>

\* _execute_action up to the handler's result or its first await
Dispatch(s) ==
    /\ running = s
    /\ req[s].pc = "dispatch"
    /\ \E o \in ExecuteAction(impl, credential, req[s].action_decision,
                              current_newsletter_state) :
          /\ req' = [req EXCEPT ![s].pc = o.next, ![s].result = o.result]
          /\ current_newsletter_state' = o.state
          /\ running' = IF o.next = "record" THEN s ELSE 0
    /\ UNCHANGED <<impl, credential, conversation_history, clock, limit>>
    /\ UNCHANGED <<guardVars, dbVars, extVars>>

\* scraper.search_events returns to the handler that awaits it
SearchReturns(s) ==
    /\ running = 0
    /\ req[s].pc = "await_search"
    /\ \E evs \in SearchResults :
          LET o == AfterSearch(req[s].action_decision, current_newsletter_state, evs)
          IN  /\ req' = [req EXCEPT ![s].pc = o.next, ![s].result = o.result]
              /\ current_newsletter_state' = o.state
    /\ running' = s
    /\ UNCHANGED <<impl, credential, conversation_history, clock, limit>>
    /\ UNCHANGED <<guardVars, dbVars, extVars>>

\* the HTTP get of _web_search returns or fails
WebReturns(s) ==
    /\ running = 0
    /\ req[s].pc = "await_web"
    /\ \E o \in WebSearchFinish(current_newsletter_state) :
          req' = [req EXCEPT ![s].pc = o.next, ![s].result = o.result]
    /\ running' = s
    /\ UNCHANGED <<impl, credential, conversation_history, current_newsletter_state,
                   clock, limit>>
    /\ UNCHANGED <<guardVars, dbVars, extVars>>

\* _update_context_memory
UpdateContextMemory(s) ==
    /\ running = s
    /\ req[s].pc = "record"
    /\ conversation_history' = RecordTurn(conversation_history, Turn(req[s], clock))
    /\ req' = [req EXCEPT ![s].pc = "return"]
    /\ UNCHANGED <<impl, credential, current_newsletter_state, running, clock, limit>>
    /\ UNCHANGED <<guardVars, dbVars, extVars>>

\* return {"success": True, ...}
Return(s) ==
    /\ running = s
    /\ req[s].pc = "return"
    /\ req' = [req EXCEPT ![s].pc = "done", ![s].outcome = "returned",
                          ![s].envelope = SuccessEnvelope(req[s].action_decision,
                                                          req[s].result)]
    /\ running' = 0
    /\ UNCHANGED <<impl, credential, conversation_history, current_newsletter_state,
                   clock, limit>>
    /\ UNCHANGED <<guardVars, dbVars, extVars>>

Messages ==
    {{"generate a newsletter", "weekly"}, {"create newsletter", "monthly"},
     {"add events"}, {"change tone", "professional"}, {"delete events", "expensive"},
     {"find events"}, {"what is"}, {}, NotAStr}

\* the inputs of the intent analysis, one message or more for each rule
IntentInputs ==
    {<<m, NoContext>> : m \in Messages}
    \cup {<<{"generate a newsletter", "weekly"}, PostcodeContext>>,
          <<{"find events"}, PostcodeContext>>, <<{}, NotADict>>}

\* the inputs and the escalation replies of whole requests
Inputs ==
    {<<{"generate a newsletter", "weekly"}, NoContext>>, <<{"find events"}, NoContext>>,
     <<{"what is"}, NoContext>>, <<{}, NoContext>>, <<NotAStr, NoContext>>,
     <<{}, NotADict>>, <<WeeklyRequest, NoContext>>, <<DirectRequest, PostcodeContext>>}

Replies ==
    {Reply(FALSE, FALSE, Missing, Missing, Missing, FALSE, 0),
     Reply(TRUE, TRUE, "change_events", "chat", "why", FALSE, 0),
     Reply(TRUE, TRUE, "add_events", "newsletter", "why", FALSE, 0)}

HistoryInputs == {<<{}, NoContext>>}

(***************************************************************************)
(* The intent analysis of ChatService (chat.py).  A message is a sequence  *)
(* of words separated by single blanks; a pattern is a sequence of items   *)
(* that each take whole words:                                             *)
(*   one:   one of the alternatives (a literal, "events?", "(?:is|are)"),  *)
(*   opt:   an optional group "(?:in |near |around )?",                    *)
(*   group: the capturing group "(.+)".                                    *)
(* The vocabulary holds no word of which a pattern literal is a proper     *)
(* part, except "events" for the literal "event" that ends a pattern.      *)
(***************************************************************************)
One(alts) == [kind |-> "one", alts |-> alts]
Opt(alts) == [kind |-> "opt", alts |-> alts]
Group == [kind |-> "group", alts |-> {}]
Lit(w) == One({<<w>>})
Events == One({<<"event">>, <<"events">>})
Near == Opt({<<"in">>, <<"near">>, <<"around">>})
The == Opt({<<"the">>})
About == Opt({<<"about">>, <<"for">>})

web_search_patterns ==
    << <<Lit("search"), Opt({<<"for">>, <<"the", "web", "for">>}), Group>>,
       <<Lit("find"), Opt({<<"information", "about">>, <<"me">>}), Group>>,
       <<Lit("look"), Lit("up"), Group>>,
       <<Lit("what"), One({<<"is">>, <<"are">>}), Group>>,
       <<Lit("tell"), Lit("me"), Lit("about"), Group>> >>

event_patterns ==
    << <<Lit("find"), Opt({<<"me">>}), Opt({<<"some">>}), Events, Near, Group>>,
       <<Lit("search"), Opt({<<"for">>}), Events, Near, Group>>,
       <<Lit("what"), Events, Opt({<<"are">>}), Opt({<<"happening">>, <<"on">>}), Near, Group>>,
       <<Opt({<<"any">>}), Events, Near, Group>>,
       <<Lit("show"), Lit("me"), Events, Near, Group>> >>

event_management_patterns ==
    << <<Lit("add"), Opt({<<"these">>, <<"the">>}), Events, Lit("to"), The, Lit("newsletter")>>,
       <<Lit("refresh"), The, Events>>,
       <<Lit("update"), The, Events>>,
       <<Lit("organize"), The, Events, Lit("by"), Group>>,
       <<Lit("remove"), Opt({<<"this">>, <<"that">>}), Events>> >>

customization_patterns ==
    << <<Lit("customize"), The, Lit("newsletter")>>,
       <<Lit("change"), The, One({<<"layout">>, <<"style">>, <<"design">>})>>,
       <<Lit("modify"), The, Lit("newsletter")>>,
       <<Lit("update"), The, One({<<"template">>, <<"format">>})>> >>

content_patterns ==
    << <<Lit("generate"), Opt({<<"some">>}),
         One({<<"content">>, <<"text">>, <<"article">>}), About, Group>>,
       <<Lit("write"), Opt({<<"me">>}), Opt({<<"a">>, <<"an">>}),
         One({<<"article">>, <<"content">>, <<"text">>}), About, Group>>,
       <<Lit("create"), Opt({<<"some">>}), Lit("content"), About, Group>> >>

tool_patterns ==
    << <<Lit("use"), The, Group, Lit("tool")>>,
       <<Lit("execute"), The, Group, Lit("tool")>>,
       <<Lit("run"), The, Group, Lit("tool")>> >>

help_patterns ==
    << <<Lit("help")>>,
       <<Lit("what"), Lit("can"), Lit("you"), Lit("do")>>,
       <<Lit("available"), One({<<"tools">>, <<"commands">>, <<"options">>})>>,
       <<Lit("how"), One({<<"do", "i">>, <<"can", "i">>, <<"to">>})>> >>

NoMatch == [ok |-> FALSE, group |-> <<>>, end |-> 0]

\* the items i.. of the pattern against the words j.. of the message: an
\* optional group is taken when the rest still matches, the capturing
\* group takes as many words as the rest allows
RECURSIVE MatchFrom(_, _, _, _)
MatchFrom(pat, i, msg, j) ==
    IF i > Len(pat) THEN [ok |-> TRUE, group |-> <<>>, end |-> j]
    ELSE LET item == pat[i]
             taken == {a \in item.alts : StartsAt(msg, j, a)}
         IN  CASE item.kind = "one" ->
                    IF taken = {} THEN NoMatch
                    ELSE MatchFrom(pat, i + 1, msg, j + Len(CHOOSE a \in taken : TRUE))
               [] item.kind = "opt" ->
                    LET with == IF taken = {} THEN NoMatch
                                ELSE MatchFrom(pat, i + 1, msg,
                                               j + Len(CHOOSE a \in taken : TRUE))
                    IN  IF with.ok THEN with ELSE MatchFrom(pat, i + 1, msg, j)
               [] OTHER ->
                    LET ends == {k \in j..Len(msg) : MatchFrom(pat, i + 1, msg, k + 1).ok}
                    IN  IF ends = {} THEN NoMatch
                        ELSE LET k == CHOOSE x \in ends : \A y \in ends : y <= x
                                 rest == MatchFrom(pat, i + 1, msg, k + 1)
                             IN  [ok |-> TRUE, group |-> SubSeq(msg, j, k), end |-> rest.end]

\* re.search: the match at the leftmost position that has one
Search(pat, msg) ==
    LET starts == {j \in 1..Len(msg) : MatchFrom(pat, 1, msg, j).ok}
    IN  IF starts = {} THEN [ok |-> FALSE, group |-> <<>>, whole |-> <<>>]
        ELSE LET j == CHOOSE x \in starts : \A y \in starts : x <= y
                 m == MatchFrom(pat, 1, msg, j)
             IN  [ok |-> TRUE, group |-> m.group, whole |-> SubSeq(msg, j, m.end - 1)]

\* the first pattern of a group that matches, 0 if none does
FirstMatching(patterns, msg) ==
    LET hits == {n \in 1..Len(patterns) : Search(patterns[n], msg).ok}
    IN  IF hits = {} THEN 0 ELSE CHOOSE n \in hits : \A k \in hits : n <= k

Intent(type, slot, value, confidence) ==
    [type |-> type, slot |-> slot, value |-> value, confidence |-> confidence]
NoIntent == Intent(None, None, <<>>, 0)

\* an analysis that checks the event-search patterns before the web-search ones
EventSearchFirst ==
    << [type |-> "event_search", patterns |-> event_patterns,
        slot |-> "location", from |-> 1, confidence |-> 90],
       [type |-> "web_search", patterns |-> web_search_patterns,
        slot |-> "query", from |-> 1, confidence |-> 90] >>

\* the rule groups in the order _analyze_intent checks them, with the slot
\* each fills (group(1), group(0) or nothing) and its confidence
RuleGroups ==
    << [type |-> "web_search", patterns |-> web_search_patterns,
        slot |-> "query", from |-> 1, confidence |-> 90],
       [type |-> "event_search", patterns |-> event_patterns,
        slot |-> "location", from |-> 1, confidence |-> 90],
       [type |-> "event_management", patterns |-> event_management_patterns,
        slot |-> "action", from |-> 0, confidence |-> 80],
       [type |-> "newsletter_customization", patterns |-> customization_patterns,
        slot |-> "action", from |-> 0, confidence |-> 80],
       [type |-> "content_generation", patterns |-> content_patterns,
        slot |-> "topic", from |-> 1, confidence |-> 80],
       [type |-> "tool_execution", patterns |-> tool_patterns,
        slot |-> "tool", from |-> 1, confidence |-> 70],
       [type |-> "help", patterns |-> help_patterns,
        slot |-> None, from |-> 0, confidence |-> 90] >>

RECURSIVE CheckGroups(_, _)
CheckGroups(g, message_lower) ==
    IF g > Len(RuleGroups) THEN Intent("general", None, <<>>, 50)
    ELSE LET grp == RuleGroups[g]
             n == FirstMatching(grp.patterns, message_lower)
         IN  IF n = 0 THEN CheckGroups(g + 1, message_lower)
             ELSE LET match == Search(grp.patterns[n], message_lower)
                  IN  Intent(grp.type, grp.slot,
                             IF grp.slot = None THEN <<>>
                             ELSE IF grp.from = 1 THEN match.group ELSE match.whole,
                             grp.confidence)

\* an analysis whose confidence falls with the length of the message
LengthWeighted(message) ==
    LET r == CheckGroups(1, Lower(message))
    IN  [r EXCEPT !.confidence = IF Len(message) > 3 THEN r.confidence - 30
                                 ELSE r.confidence]

_analyze_intent(message) == CheckGroups(1, Lower(message))

\* the messages: a request head followed by up to MaxTail more words
MaxTail == 2
ChatHeads ==
    {<<>>, <<"search", "for">>, <<"Find">>, <<"find", "me">>, <<"look", "up">>,
     <<"what", "is">>, <<"tell", "me", "about">>,
     <<"find", "events", "in">>, <<"search", "events">>, <<"what", "events", "are", "on">>,
     <<"any", "events", "near">>, <<"show", "me", "events">>,
     <<"add", "the", "events", "to", "the", "newsletter">>, <<"refresh", "events">>,
     <<"organize", "events", "by">>, <<"remove", "this", "event">>,
     <<"customize", "the", "newsletter">>, <<"change", "the", "layout">>,
     <<"update", "the", "template">>,
     <<"generate", "some", "content", "about">>, <<"write", "an", "article", "for">>,
     <<"use", "the", "search", "tool">>, <<"run", "the">>,
     <<"HELP">>, <<"what", "can", "you", "do">>, <<"how", "do", "i">>,
     <<"available", "tools">>}
ChatTailWords == {"TS1", "3BA", "events", "tool", "asdkjasd"}
ChatMessages == {h \o t : h \in ChatHeads, t \in SeqsUpTo(ChatTailWords, MaxTail)}

(***************************************************************************)
(* chat_with_reasoning of AIChatService (ai_chat_service.py) and its       *)
(* screen for fabricated content.  Texts are sequences of words; a bold    *)
(* span "**...**" and a numeral "1." are one word each.                    *)
(***************************************************************************)
\* the keywords of the tables below that a lower-cased word holds
KeywordsIn(w) ==
    CASE w = "events" -> {"events", "event"}
      [] w = "event" -> {"event"}
      [] w = "uneventful" -> {"event"}
      [] w = "together" -> {"get"}
      [] w \in {"search", "find", "more", "add", "get", "show", "list"} -> {w}
      [] OTHER -> {}

\* keyword in user_message.lower(), for a keyword of one or two words
HoldsKeyword(words, keyword) ==
    IF Len(keyword) = 1
    THEN \E i \in 1..Len(words) : keyword[1] \in KeywordsIn(LowerWord(words[i]))
    ELSE \E i \in 1..(Len(words) - 1) :
            /\ LowerWord(words[i]) = keyword[1]
            /\ LowerWord(words[i + 1]) \in {"event", "events"}

\* should_force_tools
ShouldForceTools(user_message) ==
    \E k \in {"events", "event", "search", "find", "more", "add", "get", "show", "list"} :
        HoldsKeyword(user_message, <<k>>)

\* the keyword test that opens _contains_hallucinated_content
AsksForEvents(user_message) ==
    \E k \in {<<"event">>, <<"more", "event">>, <<"add", "event">>} :
        HoldsKeyword(user_message, k)

Bold == One({<<"**fun day**">>})
hallucination_indicators ==
    << <<Bold, Lit("-"), Lit("**date:**")>>,
       <<One({<<"1.">>, <<"2.">>}), Bold>>,
       <<Lit("community"), One({<<"craft">>, <<"summer">>}), Lit("fair")>>,
       <<Lit("avalon"), Lit("community"), Lit("center")>>,
       <<Lit("saturday,"), Lit("november"), One({<<"5th">>, <<"12th">>})>>,
       <<Lit("all"), Lit("materials"), Lit("provided")>>,
       <<Lit("snacks"), Lit("and"), Lit("drinks"), Lit("available")>>,
       <<Lit("bring"), Lit("your"), Lit("blankets")>> >>

\* re.search(pattern, response, re.IGNORECASE) for any of the indicators
HasIndicator(response) ==
    \E n \in 1..Len(hallucination_indicators) :
        Search(hallucination_indicators[n], Lower(response)).ok

NoText == <<None>>
_contains_hallucinated_content(response, user_message) ==
    AsksForEvents(user_message) /\ HasIndicator(response)

SafeMessage ==
    <<"I", "can", "only", "provide", "information", "from", "my", "available", "tools.",
      "Let", "me", "search", "for", "real", "data", "for", "you.">>
ErrorMessage == <<"I", "encountered", "an", "error:">>

\* what the completion may write
Texts ==
    {<<"No", "events", "found">>,
     <<"1.", "**Fun Day**", "at", "the", "park">>,
     <<"**Fun Day**", "-", "**Date:**", "Saturday,", "November", "5th">>,
     <<"Visit", "the", "Community", "Craft", "Fair">>,
     <<"at", "Avalon", "Community", "Center">>,
     <<"All", "materials", "provided">>,
     <<"Snacks", "and", "drinks", "available">>,
     <<"Bring", "your", "blankets">>,
     <<"It", "is", "sunny">>}

ReasoningRequests ==
    {<<"add", "more", "events">>, <<"Events", "near", "me">>, <<"an", "uneventful", "week">>,
     <<"what", "is", "the", "weather">>, <<"put", "it", "together">>}

\* a reply of chat.completions.create: it fails, or it holds content and
\* tool calls (none, well-formed, or with arguments that are no JSON)
Completion(ok, tool_calls, content) == [ok |-> ok, tool_calls |-> tool_calls, content |-> content]
Completions ==
    {Completion(FALSE, "none", NoText)}
    \cup {Completion(TRUE, t, c) : t \in {"none", "valid", "malformed"},
                                   c \in Texts \cup {NoText}}

IdleReasoning ==
    [pc |-> "idle", user_message |-> <<>>, tool_choice |-> None, path |-> None,
     generated |-> NoText, message |-> NoText]

Returned(r, path, generated, message) ==
    [r EXCEPT !.pc = "returned", !.path = path, !.generated = generated,
              !.message = message]

\* the first completion, with tools offered, and the branch on its tool calls
FirstCompletion ==
    /\ reasoning.pc = "start"
    /\ \E reply \in Completions :
         LET r == [reasoning EXCEPT
                      !.tool_choice = IF ShouldForceTools(reasoning.user_message)
                                      THEN "required" ELSE "auto"]
         IN  reasoning' =
                IF ~reply.ok \/ reply.tool_calls = "malformed"
                THEN Returned(r, "error", NoText, ErrorMessage)
                ELSE IF reply.tool_calls = "valid"
                THEN [r EXCEPT !.pc = "tools"]
                ELSE Returned(r, "direct", reply.content, reply.content)
    /\ UNCHANGED <<svcVars, guardVars, dbVars, chatVars, images, ctxVars, moreVars>>

\* the called functions run; each failure becomes a tool message
ExecuteTools ==
    /\ reasoning.pc = "tools"
    /\ reasoning' = [reasoning EXCEPT !.pc = "final"]
    /\ UNCHANGED <<svcVars, guardVars, dbVars, chatVars, images, ctxVars, moreVars>>

\* the final completion and the screen of its text
FinalCompletion ==
    /\ reasoning.pc = "final"
    /\ \E reply \in Completions :
         /\ reply.tool_calls = "none"
         /\ reasoning' =
              IF ~reply.ok
              THEN Returned(reasoning, "error", NoText, ErrorMessage)
              ELSE IF reply.content = NoText /\ AsksForEvents(reasoning.user_message)
              THEN Returned(reasoning, "error", NoText, ErrorMessage)
              ELSE IF _contains_hallucinated_content(reply.content, reasoning.user_message)
              THEN Returned(reasoning, "tools", reply.content, SafeMessage)
              ELSE Returned(reasoning, "tools", reply.content, reply.content)
    /\ UNCHANGED <<svcVars, guardVars, dbVars, chatVars, images, ctxVars, moreVars>>

(***************************************************************************)
(* The images validator of EventDetails (models/newsletter.py).  An entry  *)
(* of the list is a string, given by how it starts and how it ends, or a   *)
(* value that is no string.                                                *)
(***************************************************************************)
MaxImages == 2
Image(is_str, starts, ends) == [is_str |-> is_str, starts |-> starts, ends |-> ends]
ImageEntries ==
    {Image(TRUE, a, z) : a \in {"http://", "https://", "ftp://", ""},
                         z \in {".jpg", ".png", ".jpeg", ".gif", ""}}
    \cup {Image(FALSE, "", "")}

\* a validator that keeps absolute URLs only
KeepsOnlyUrls(img) ==
    img.is_str /\ img.starts \in {"http://", "https://"}

\* the branches of the loop body: whether the entry is appended
KeepsImage(img) ==
    IF ~img.is_str THEN FALSE
    ELSE IF img.starts = "http://" \/ img.starts = "https://" THEN TRUE
    ELSE IF img.ends = ".jpg" \/ img.ends = ".png" \/ img.ends = ".jpeg" THEN FALSE
    ELSE TRUE

\* validate_images: [] for None and for an empty list, else the kept entries
validate_images(v) ==
    IF v.none \/ v.list = <<>> THEN <<>> ELSE SelectSeq(v.list, KeepsImage)

ImageInputs ==
    {[none |-> TRUE, list |-> <<>>]}
    \cup {[none |-> FALSE, list |-> l] : l \in SeqsUpTo(ImageEntries, MaxImages)}

IdleImages == [input |-> [none |-> TRUE, list |-> <<>>], called |-> FALSE, output |-> <<>>]

ValidateImages ==
    /\ ~images.called
    /\ images' = [images EXCEPT !.called = TRUE, !.output = validate_images(images.input)]
    /\ UNCHANGED <<svcVars, guardVars, dbVars, chatVars, reasoning, ctxVars, moreVars>>

(***************************************************************************)
(* The endpoints of context_chat.py.  The module holds one global,         *)
(* context_ai_service; a handler binds the object it gets to a local name  *)
(* and keeps that name over its await.                                     *)
(***************************************************************************)
MaxResets == 1
MaxPreferenceCalls == 3
NoService == 0

\* a preferences dict: a function from the keys it holds to their values
NoPreferences == [k \in {} |-> "5"]
PreferenceMaps ==
    UNION {[D -> {"formal", "casual"}] : D \in SUBSET {"tone", "style"}}

\* dict.update: the keys of both, the value of the argument where it has one
DictUpdate(old, new) ==
    [k \in (DOMAIN old) \cup (DOMAIN new) |-> IF k \in DOMAIN new THEN new[k] ELSE old[k]]

\* a setter that stores the supplied map in place of the stored one
ReplacePreferences(user_preferences, preferences) == preferences

\* ContextAwareAIService.set_user_preferences
SetUserPreferences(user_preferences, preferences) ==
    DictUpdate(user_preferences, preferences)

\* ContextAwareAIService.__init__
NewService ==
    [conversation_history |-> <<>>, current_newsletter_state |-> NoNewsletter,
     user_preferences |-> NoPreferences]

\* get_context_ai_service: the global, created first when it is None
get_context_ai_service(global, objects) ==
    IF global = NoService
    THEN [service |-> Len(objects) + 1, orchestrators |-> Append(objects, NewService)]
    ELSE [service |-> global, orchestrators |-> objects]

\* the clients of /context-chat (their session_id and user_id) and what each sends
Clients == {"a", "b"}
ClientMessages(c) ==
    IF c = "a" THEN {{"generate a newsletter", "weekly"}, {"create newsletter", "monthly"}}
    ELSE {{"find events"}, {}}
ClientContexts == {NoContext, PostcodeContext}

NoResponse ==
    [success |-> FALSE, action_taken |-> None, conversation_history |-> <<>>,
     newsletter_state |-> NoNewsletter]

IdleCall ==
    [pc |-> "idle", service |-> NoService, user_message |-> {},
     action_decision |-> NoDecision, result |-> NoResult, response |-> NoResponse]

\* a handler that looks the global up again after its await
GlobalAfterAwait(call, global) == IF global = NoService THEN call.service ELSE global

\* the local name 'service' of context_aware_chat
LocalService(call, global) == call.service

\* ContextChatResponse(...) of either branch, read from the local service
ContextChatResponse(envelope, service) ==
    IF envelope.success
    THEN [success |-> TRUE, action_taken |-> envelope.action_taken,
          conversation_history |-> GetConversationHistory(service.conversation_history),
          newsletter_state |-> service.current_newsletter_state]
    ELSE [success |-> FALSE, action_taken |-> "error",
          conversation_history |-> GetConversationHistory(service.conversation_history),
          newsletter_state |-> NoNewsletter]

\* process_user_request from the handler's result on, then the response
FinishCall(call, objects, i, o, now) ==
    LET r == [call EXCEPT !.result = o.result]
        after == [objects[i] EXCEPT
                     !.current_newsletter_state = o.state,
                     !.conversation_history = RecordTurn(@, Turn(r, now))]
    IN  [call |-> [r EXCEPT !.pc = "done",
                            !.response = ContextChatResponse(
                                 SuccessEnvelope(r.action_decision, r.result), after)],
         orchestrators |-> [objects EXCEPT ![i] = after]]

\* POST /context-chat up to its response or to the await of the event search
ContextChat(c, message, context) ==
    /\ calls[c].pc \in {"idle", "done"}
    /\ clock < limit
    /\ clock' = clock + 1
    /\ LET got == get_context_ai_service(context_ai_service, orchestrators)
           i == got.service
           decision == _rule_based_intent_analysis("base", message, context)
           call == [IdleCall EXCEPT !.service = i, !.user_message = message,
                                    !.action_decision = decision]
       IN  /\ context_ai_service' = i
           /\ \E o \in ExecuteAction("base", credential, decision,
                                     got.orchestrators[i].current_newsletter_state) :
                 IF o.next = "record"
                 THEN LET f == FinishCall(call, got.orchestrators, i, o, clock + 1)
                      IN  /\ calls' = [calls EXCEPT ![c] = f.call]
                          /\ orchestrators' = f.orchestrators
                 ELSE /\ calls' = [calls EXCEPT ![c] = [call EXCEPT !.pc = o.next]]
                      /\ orchestrators' =
                            [got.orchestrators EXCEPT ![i].current_newsletter_state = o.state]
    /\ UNCHANGED <<impl, credential, conversation_history, current_newsletter_state,
                   req, running, limit, supplied>>
    /\ UNCHANGED <<guardVars, dbVars, chatVars, reasoning, images, moreVars>>

\* the event search returns to a suspended /context-chat request
ContextChatResumes(c) ==
    /\ calls[c].pc = "await_search"
    /\ \E evs \in SearchResults :
          LET i == LocalService(calls[c], context_ai_service)
              o == AfterSearch(calls[c].action_decision,
                               orchestrators[i].current_newsletter_state, evs)
              f == FinishCall(calls[c], orchestrators, i, o, clock)
          IN  /\ calls' = [calls EXCEPT ![c] = f.call]
              /\ orchestrators' = f.orchestrators
    /\ UNCHANGED <<context_ai_service, supplied>>
    /\ UNCHANGED <<svcVars, guardVars, dbVars, chatVars, reasoning, images, moreVars>>

\* POST /set-preferences
SetPreferences(preferences) ==
    /\ Len(supplied) < MaxPreferenceCalls
    /\ LET got == get_context_ai_service(context_ai_service, orchestrators)
           i == got.service
       IN  /\ context_ai_service' = i
           /\ orchestrators' =
                 [got.orchestrators EXCEPT
                     ![i].user_preferences = SetUserPreferences(@, preferences)]
           /\ supplied' = Append(supplied, [service |-> i, preferences |-> preferences])
    /\ UNCHANGED calls
    /\ UNCHANGED <<svcVars, guardVars, dbVars, chatVars, reasoning, images, moreVars>>

\* POST /reset-context
ResetContext ==
    /\ Len(orchestrators) <= MaxResets
    /\ context_ai_service' = NoService
    /\ UNCHANGED <<orchestrators, calls, supplied>>
    /\ UNCHANGED <<svcVars, guardVars, dbVars, chatVars, reasoning, images, moreVars>>

InitContext ==
    /\ context_ai_service = NoService
    /\ orchestrators = <<>>
    /\ calls = [c \in Clients |-> IdleCall]
    /\ supplied = <<>>

(***************************************************************************)
(* EnhancedEventScraper.search_events (enhanced_event_scraper.py).  A      *)
(* datetime is a number of ticks, TicksPerDay to the day; a date string is *)
(* its format with the day and the time of day it spells.                  *)
(***************************************************************************)
TicksPerDay == 2
MaxElapsed == 1
Today == 10
MaxAttempts == 4
MinEvents == 5
WeeklyDays == 7
MonthlyDays == 30
NoDate == 0 - 1
NotANumber == 0 - 1

Stamp(day, tick) == day * TicksPerDay + tick
Days(n) == n * TicksPerDay

DateFormats == {"%Y-%m-%d", "%d/%m/%Y", "%d-%m-%Y"}
DateTimeFormats == {"%Y-%m-%d %H:%M:%S", "%d/%m/%Y %H:%M"}
DateStr(format, day, tick) == [format |-> format, day |-> day, tick |-> tick]

\* datetime.strftime('%Y-%m-%d'): the day, without the time of day
StrfDate(stamp) == DateStr("%Y-%m-%d", stamp \div TicksPerDay, 0)

\* _parse_event_date: None for '' and for a string no format reads
_parse_event_date(date_str) ==
    IF date_str.format = "" THEN NoDate
    ELSE IF date_str.format \in DateFormats THEN Stamp(date_str.day, 0)
    ELSE IF date_str.format \in DateTimeFormats THEN Stamp(date_str.day, date_str.tick)
    ELSE NoDate

Found(event_title, location, date, family_friendly, suitable) ==
    [event_title |-> event_title, location |-> location, date |-> date,
     family_friendly |-> family_friendly, suitable_for_social_housing |-> suitable]

Listed(event_title, location, start_date, days) ==
    Found(event_title, location, StrfDate(start_date + Days(days)), TRUE, TRUE)

Providers == 1..5

\* the lists the five sub-searches build from start_date and end_date
ListedEvents(p, start_date, end_date) ==
    CASE p = 1 ->
           <<Listed("Free Family Fun Day", "Community Centre", start_date, 2),
             Listed("Children's Story Time & Craft Workshop", "Public Library", start_date, 4),
             Listed("Free Kids Sports & Games Session", "Sports Centre", start_date, 6)>>
           \o (IF (end_date - start_date) \div TicksPerDay > 7
               THEN <<Listed("Family Cooking Workshop", "Community Kitchen", start_date, 10),
                      Listed("Free Children's Theatre Performance", "Town Hall", start_date, 15),
                      Listed("Family Nature Walk & Picnic", "Country Park", start_date, 20)>>
               ELSE <<>>)
      [] p = 2 ->
           <<Listed("Single Parents Support Group", "Family Centre", start_date, 3),
             Listed("Toddler Play Group", "Children's Centre", start_date, 5)>>
      [] p = 3 ->
           <<Listed("Free School Holiday Activities", "Leisure Centre", start_date, 1),
             Listed("Family Learning Sessions", "Adult Learning Centre", start_date, 7)>>
      [] p = 4 ->
           <<Listed("Community Garden Family Day", "Community Garden", start_date, 6),
             Listed("Free Family Breakfast Club", "Community Hall", start_date, 2)>>
      [] p = 5 ->
           <<Listed("Rhyme Time for Babies & Toddlers", "Central Library", start_date, 2),
             Listed("Homework Help Club", "Library Learning Centre", start_date, 4)>>

\* what a sub-search of another build may hand back: dates on either side of
\* the window and at its ends, unreadable dates, events without the flags,
\* a repeated event
OtherEvents(start_date, end_date) ==
    <<Found("Winter Fair", "Market Square", StrfDate(start_date), TRUE, TRUE),
      Found("Lantern Walk", "Riverside",
            DateStr("%d/%m/%Y %H:%M", start_date \div TicksPerDay, start_date % TicksPerDay),
            TRUE, TRUE),
      Found("Harvest Supper", "Village Hall", StrfDate(end_date + Days(1)), TRUE, TRUE),
      Found("Boat Race", "Riverside",
            DateStr("%Y-%m-%d %H:%M:%S", end_date \div TicksPerDay, TicksPerDay - 1),
            TRUE, TRUE),
      Found("Quiz Night", "The Crown", StrfDate(start_date + Days(1)), FALSE, TRUE),
      Found("Car Boot Sale", "Car Park", StrfDate(start_date + Days(1)), TRUE, FALSE),
      Found("Open Day", "Fire Station", DateStr("next Friday", 0, 0), TRUE, TRUE),
      Found("Coffee Morning", "Church Hall", DateStr("", 0, 0), TRUE, TRUE),
      Found("FREE FAMILY FUN DAY", "COMMUNITY CENTRE", StrfDate(start_date + Days(3)), TRUE, TRUE)>>

\* an event whose title is None
Untitled(start_date) == Found(Null, "Park", StrfDate(start_date + Days(1)), TRUE, TRUE)

\* what a sub-search hands to gather: the first in every way, the second
\* its list, nothing or an exception, the others their lists or nothing, all
\* three alike
ProviderOutcomes(p) ==
    IF p = 1 THEN {"listed", "nothing", "other", "untitled", "raises"}
    ELSE IF p = 2 THEN {"listed", "nothing", "raises"}
    ELSE {"listed", "nothing"}
GatherOutcomes ==
    {[p \in Providers |-> IF p = 1 THEN a ELSE IF p = 2 THEN b ELSE c] :
        a \in ProviderOutcomes(1), b \in ProviderOutcomes(2), c \in ProviderOutcomes(3)}

\* one entry of the results of asyncio.gather(..., return_exceptions=True)
GatherResult(p, outcome, start_date, end_date) ==
    CASE outcome = "listed" ->
           [is_list |-> TRUE, events |-> ListedEvents(p, start_date, end_date)]
      [] outcome = "nothing" -> [is_list |-> TRUE, events |-> <<>>]
      [] outcome = "other" ->
           [is_list |-> TRUE, events |-> OtherEvents(start_date, end_date)]
      [] outcome = "untitled" -> [is_list |-> TRUE, events |-> <<Untitled(start_date)>>]
      [] outcome = "raises" -> [is_list |-> FALSE, events |-> <<>>]

\* for result in results: if isinstance(result, list): all_events.extend(result)
RECURSIVE CollectEvents(_, _)
CollectEvents(results, p) ==
    IF p > Len(results) THEN <<>>
    ELSE (IF results[p].is_list THEN results[p].events ELSE <<>>)
         \o CollectEvents(results, p + 1)

\* a filter that looks at the two flags only
FilterByFlags(events, start_date, end_date) ==
    SelectSeq(events, LAMBDA event :
        event.family_friendly /\ event.suitable_for_social_housing)

\* _filter_family_friendly_events
_filter_family_friendly_events(events, start_date, end_date) ==
    SelectSeq(events, LAMBDA event :
        /\ event.family_friendly
        /\ event.suitable_for_social_housing
        /\ _parse_event_date(event.date) # NoDate
        /\ start_date <= _parse_event_date(event.date)
        /\ _parse_event_date(event.date) <= end_date)

\* str.lower of the titles and places that occur
LowerText(t) ==
    CASE t = "FREE FAMILY FUN DAY" -> "free family fun day"
      [] t = "Free Family Fun Day" -> "free family fun day"
      [] t = "COMMUNITY CENTRE" -> "community centre"
      [] t = "Community Centre" -> "community centre"
      [] OTHER -> t

DedupKey(event) == <<LowerText(event.event_title), LowerText(event.location)>>

\* the events at the positions of keep, in their order
AtPositions(events, keep) ==
    [k \in 1..Cardinality(keep) |->
        events[CHOOSE i \in keep : Cardinality({j \in keep : j <= i}) = k]]

\* _deduplicate_events: the first event of each (title, location) key
Deduplicate(events) ==
    AtPositions(events,
                {i \in 1..Len(events) :
                    \A j \in 1..(i - 1) : DedupKey(events[j]) # DedupKey(events[i])})

\* sorted(events, key=parsed date or datetime.min): by key, stable
SortKey(event) ==
    IF _parse_event_date(event.date) = NoDate THEN 0 ELSE _parse_event_date(event.date)
SortedByDate(events) ==
    [k \in 1..Len(events) |->
        events[CHOOSE i \in 1..Len(events) :
                  Cardinality({j \in 1..Len(events) :
                                  \/ SortKey(events[j]) < SortKey(events[i])
                                  \/ SortKey(events[j]) = SortKey(events[i]) /\ j <= i}) = k]]

\* _organize_events_by_schedule: by date; weekly keeps the events with a date
_organize_events_by_schedule(events, frequency) ==
    IF LowerWord(frequency) = "weekly"
    THEN SelectSeq(SortedByDate(events), LAMBDA e : _parse_event_date(e.date) # NoDate)
    ELSE SortedByDate(events)

\* a handler that lets the exception out of search_events
SearchEventsRaises(e) == [raised |-> TRUE, outcome |-> <<>>]

\* except Exception as e: ... return []
SearchEventsExcept(e) == [raised |-> FALSE, outcome |-> <<>>]

\* if len(unique_events) < 5 and current_radius_attempt < 4
ShouldRetry(unique_events, current_radius_attempt) ==
    Len(unique_events) < MinEvents /\ current_radius_attempt < MaxAttempts

\* radius in eighths of a mile, so that radius * 1.5 is exact
Eighths(miles) == miles * 8
ExpandedRadius(radius) == (radius * 3) \div 2

Frequencies == {"Weekly", "monthly", None}
Radii == {Eighths(5), NotANumber}

IdleScraper ==
    [pc |-> "idle", radius |-> 0, first_radius |-> 0, frequency |-> "weekly",
     current_radius_attempt |-> 0, now |-> Stamp(Today, 0), called_at |-> 0,
     start_date |-> 0, end_date |-> 0, results |-> [p \in Providers |-> "nothing"],
     found |-> 0, error |-> "none",
     raised |-> FALSE, outcome |-> <<>>]

\* search_events is entered (a call from outside, or the call of a retry)
Enter(call, radius, attempt) ==
    [call EXCEPT !.pc = "locate", !.radius = radius, !.current_radius_attempt = attempt]

\* the except clause answers
Fail(call, e) ==
    LET caught == SearchEventsExcept(e)
    IN  [call EXCEPT !.pc = "done", !.error = e, !.raised = caught.raised,
                     !.outcome = caught.outcome]

\* a caller starts search_events(postcode, radius, frequency)
SearchEvents(radius, frequency) ==
    /\ scraper.pc = "idle"
    /\ scraper' = [Enter(scraper, radius, 1) EXCEPT !.first_radius = radius,
                                                   !.frequency = frequency,
                                                   !.called_at = scraper.now]
    /\ UNCHANGED <<svcVars, guardVars, dbVars, chatVars, reasoning, images, ctxVars, convVars, toolrun>>

\* _get_location_data returns, some time after the call or after the last
\* attempt; then the date range is computed
LocationReturns(found, elapsed) ==
    /\ scraper.pc = "locate"
    /\ scraper.now + elapsed <= Stamp(Today, 0) + MaxElapsed + TicksPerDay - 1
    /\ LET now == scraper.now + elapsed
           at == [scraper EXCEPT !.now = now]
       IN  scraper' =
             IF ~found
             THEN [at EXCEPT !.pc = "done", !.error = "no location data", !.outcome = <<>>]
             ELSE IF at.frequency = None
             THEN Fail(at, "'NoneType' object has no attribute 'lower'")
             ELSE [at EXCEPT !.pc = "gather", !.start_date = now,
                             !.end_date = now + IF LowerWord(at.frequency) = "weekly"
                                                THEN Days(WeeklyDays)
                                                ELSE Days(MonthlyDays)]
    /\ UNCHANGED <<svcVars, guardVars, dbVars, chatVars, reasoning, images, ctxVars, convVars, toolrun>>

\* asyncio.gather returns the results of the five sub-searches
ProvidersReturn(outcomes) ==
    /\ scraper.pc = "gather"
    /\ scraper' = [scraper EXCEPT !.pc = "collect", !.results = outcomes]
    /\ UNCHANGED <<svcVars, guardVars, dbVars, chatVars, reasoning, images, ctxVars, convVars, toolrun>>

\* if len(unique_events) < 5 and current_radius_attempt < 4: the retry;
\* else the organized events are returned
RetryOrReturn(at, unique_events) ==
    LET seen == [at EXCEPT !.found = Len(unique_events)]
    IN  IF ShouldRetry(unique_events, at.current_radius_attempt)
        THEN IF at.radius = NotANumber
             THEN Fail(seen, "can't multiply sequence by non-int of type 'float'")
             ELSE Enter(seen, ExpandedRadius(at.radius), at.current_radius_attempt + 1)
        ELSE [seen EXCEPT
                 !.pc = "done",
                 !.outcome = _organize_events_by_schedule(unique_events, at.frequency)]

\* lines 63-86: collect, filter, deduplicate, then retry or organize and return
CollectEventsAndReturn ==
    /\ scraper.pc = "collect"
    /\ \E all_events \in
          {CollectEvents([p \in Providers |->
                             GatherResult(p, scraper.results[p], scraper.start_date,
                                          scraper.end_date)], 1)} :
       \E family_events \in
          {_filter_family_friendly_events(all_events, scraper.start_date,
                                          scraper.end_date)} :
          IF \E i \in 1..Len(family_events) : family_events[i].event_title = Null
          THEN scraper' = Fail(scraper, "'NoneType' object has no attribute 'lower'")
          ELSE \E unique_events \in {Deduplicate(family_events)} :
                  scraper' = RetryOrReturn(scraper, unique_events)
    /\ UNCHANGED <<svcVars, guardVars, dbVars, chatVars, reasoning, images, ctxVars, convVars, toolrun>>

(***************************************************************************)
(* The conversation of the newsletter (conversations.py) and the accept or *)
(* reject action (newsletters.py).  The newsletter was created with the    *)
(* conversation's id.  A message is its role.                              *)
(***************************************************************************)
MaxChats == 2

\* $push of messages onto the document
Push(conv, messages) == [conv EXCEPT !.messages = conv.messages \o messages]

ActionNames == {"accept", "reject"}

\* request.action + "ed"
ActionStatus(action) == IF action = "accept" THEN "accepted" ELSE "rejected"
ChatKinds == {"add_message", "chat_with_ai"}
IdleChat == [pc |-> "idle", kind |-> None]

InitConversation ==
    /\ conversation = [status |-> "active", messages |-> <<"system">>]
    /\ chats = [c \in 1..MaxChats |-> IdleChat]
    /\ act = [pc |-> "idle", action |-> None]

(***************************************************************************)
(* The tool calls of chat_with_reasoning (ai_chat_service.py): from the    *)
(* first reply, which holds tool calls, to the request of the final        *)
(* completion.  A message is its role and, for a tool message, the id of   *)
(* the call it answers.                                                    *)
(***************************************************************************)
MaxToolCalls == 2

\* the keys of self.available_functions
available_functions ==
    {"web_search", "search_events", "search_local_businesses", "get_weather_info",
     "generate_newsletter_content", "customize_newsletter", "manage_schedule", "find_images"}

\* the function names of the replies: two that are available and one that is not
CalledNames == {"search_events", "get_weather_info", "book_venue"}

\* tool calls as the provider sends them: the ids differ, the arguments are
\* JSON or not
ToolCall(id, name, json) == [id |-> id, name |-> name, json |-> json]

ToolCallLists ==
    UNION {{[k \in 1..n |-> ToolCall(k, names[k], json[k])] :
               names \in [1..n -> CalledNames], json \in [1..n -> BOOLEAN]} :
           n \in 1..MaxToolCalls}

ChatMessage(role, tool_call_id) == [role |-> role, tool_call_id |-> tool_call_id]

IdleToolRun ==
    [pc |-> "idle", tool_calls |-> <<>>, at |-> 0, messages |-> <<>>,
     function_results |-> <<>>, raised |-> FALSE]

\* the assistant message with its tool calls is added to the messages
FirstReplyHoldsToolCalls(tool_calls) ==
    /\ toolrun.pc = "idle"
    /\ toolrun' = [toolrun EXCEPT
                      !.pc = "tools", !.tool_calls = tool_calls, !.at = 1,
                      !.messages = <<ChatMessage("system", 0), ChatMessage("user", 0),
                                     ChatMessage("assistant", 0)>>]
    /\ UNCHANGED <<svcVars, guardVars, dbVars, chatVars, reasoning, images, ctxVars,
                   scraper, convVars>>

\* one turn of the loop over the tool calls: the arguments are parsed, the
\* function, when there is one of the name, is awaited, and its result or
\* its exception becomes a tool message
ExecuteToolCall(returns) ==
    /\ toolrun.pc = "tools"
    /\ toolrun.at <= Len(toolrun.tool_calls)
    /\ LET tool_call == toolrun.tool_calls[toolrun.at]
           answer == ChatMessage("tool", tool_call.id)
       IN  toolrun' =
             IF ~tool_call.json
             THEN [toolrun EXCEPT !.pc = "returned", !.raised = TRUE]
             ELSE IF tool_call.name \in available_functions
             THEN [toolrun EXCEPT
                      !.at = @ + 1,
                      !.messages = Append(@, answer),
                      !.function_results =
                          IF returns THEN Append(@, tool_call.id) ELSE @]
             ELSE [toolrun EXCEPT !.at = @ + 1]
    /\ UNCHANGED <<svcVars, guardVars, dbVars, chatVars, reasoning, images, ctxVars,
                   scraper, convVars>>

\* after the loop: the closing system message, then the final completion
\* is requested with the messages
RequestFinalCompletion ==
    /\ toolrun.pc = "tools"
    /\ toolrun.at > Len(toolrun.tool_calls)
    /\ toolrun' = [toolrun EXCEPT !.pc = "final",
                                  !.messages = Append(@, ChatMessage("system", 0))]
    /\ UNCHANGED <<svcVars, guardVars, dbVars, chatVars, reasoning, images, ctxVars,
                   scraper, convVars>>

\* the final completion returns or raises
FinalCompletionReturns(ok) ==
    /\ toolrun.pc = "final"
    /\ toolrun' = [toolrun EXCEPT !.pc = "returned", !.raised = ~ok]
    /\ UNCHANGED <<svcVars, guardVars, dbVars, chatVars, reasoning, images, ctxVars,
                   scraper, convVars>>

InitMore ==
    /\ scraper = IdleScraper
    /\ InitConversation
    /\ toolrun = IdleToolRun

InitChat ==
    /\ chat_message = <<>>
    /\ intent = NoIntent

InitExt ==
    /\ InitChat
    /\ reasoning = IdleReasoning
    /\ images = IdleImages
    /\ InitContext
    /\ InitMore

\* ChatService.process_message up to its routing: intent = _analyze_intent(message)
AnalyzeChatIntent ==
    /\ intent = NoIntent
    /\ intent' = _analyze_intent(chat_message)
    /\ UNCHANGED <<chat_message, svcVars, guardVars, dbVars, reasoning, images, ctxVars, moreVars>>

InitService ==
    /\ conversation_history = <<>>
    /\ current_newsletter_state = NoNewsletter
    /\ req = [s \in Slots |-> FreeSlot]
    /\ running = 0
    /\ clock = 0

InitGuard ==
    /\ guard_in = [content |-> <<>>, has_events |-> FALSE, verified |-> <<>>]
    /\ guard_out = [called |-> FALSE, raised |-> FALSE, events |-> <<>>]

InitStore ==
    /\ newsletter = [status |-> "absent", version |-> 0, events |-> <<>>]
    /\ searched = {}
    /\ task = [pc |-> "none", events |-> <<>>]
    /\ upd = [u \in 1..MaxUpdates |-> [pc |-> "idle", events |-> <<>>, version |-> 0]]

Init ==
    /\ InitService
    /\ impl \in Impls
    /\ credential \in BOOLEAN
    /\ limit = MaxRequests
    /\ InitGuard
    /\ InitStore
    /\ InitExt

Next ==
    \/ \E s \in Slots : \E i \in Inputs : Submit(s, i[1], i[2])
    \/ \E s \in Slots : ExtractContext(s)
    \/ \E s \in Slots : AnalyzeIntent(s)
    \/ \E s \in Slots : Escalate(s, Replies)
    \/ \E s \in Slots : Dispatch(s)
    \/ \E s \in Slots : SearchReturns(s)
    \/ \E s \in Slots : WebReturns(s)
    \/ \E s \in Slots : UpdateContextMemory(s)
    \/ \E s \in Slots : Return(s)

Spec == Init /\ [][Next]_vars

\* the intent analysis alone, over all its inputs and replies
InitIntent ==
    /\ InitService
    /\ impl \in Impls
    /\ credential \in BOOLEAN
    /\ limit = 1
    /\ InitGuard
    /\ InitStore
    /\ InitExt

NextIntent ==
    \/ \E s \in Slots : \E i \in IntentInputs : Submit(s, i[1], i[2])
    \/ \E s \in Slots : ExtractContext(s)
    \/ \E s \in Slots : AnalyzeIntent(s)
    \/ \E s \in Slots : Escalate(s, EscalationReplies)

SpecIntent == InitIntent /\ [][NextIntent]_vars

\* a long conversation of plain chat messages, no credential configured
InitHistory ==
    /\ InitService
    /\ impl \in Impls
    /\ credential = FALSE
    /\ limit = HistoryTurns
    /\ InitGuard
    /\ InitStore
    /\ InitExt

NextHistory ==
    \/ \E s \in Slots : \E i \in HistoryInputs : Submit(s, i[1], i[2])
    \/ \E s \in Slots : ExtractContext(s)
    \/ \E s \in Slots : AnalyzeIntent(s)
    \/ \E s \in Slots : Escalate(s, EscalationReplies)
    \/ \E s \in Slots : Dispatch(s)
    \/ \E s \in Slots : UpdateContextMemory(s)
    \/ \E s \in Slots : Return(s)

SpecHistory == InitHistory /\ [][NextHistory]_vars

(***************************************************************************)
(* The guard on its own: any generated list against any verified list.     *)
(***************************************************************************)
GuardGenerated == {FunDay, Avalon, Invented, NullTitle}
GuardVerified == {FunDay, StoryTime, Invented, NoPlace}

InitGuardInputs ==
    /\ \E has \in BOOLEAN : \E g \in SeqsUpTo(GuardGenerated, MaxGuardEvents) :
       \E v \in SeqsUpTo(GuardVerified, MaxGuardEvents) :
          /\ has \/ g = <<>>
          /\ guard_in = [content |-> g, has_events |-> has, verified |-> v]
    /\ guard_out = [called |-> FALSE, raised |-> FALSE, events |-> <<>>]
    /\ InitService
    /\ impl = "base"
    /\ credential = FALSE
    /\ limit = 0
    /\ InitStore
    /\ InitExt

Validate ==
    /\ ~guard_out.called
    /\ LET out == ValidateAndEnhanceContent(guard_in.has_events, guard_in.content,
                                            guard_in.verified)
       IN  guard_out' = [called |-> TRUE, raised |-> out.raised, events |-> out.events]
    /\ UNCHANGED <<guard_in, svcVars, dbVars, extVars>>

NextGuard == Validate

SpecGuard == InitGuardInputs /\ [][NextGuard]_vars

(***************************************************************************)
(* The newsletter endpoints (newsletters.py) over one stored document:     *)
(* POST /generate with its background task, and PUT /{id}/update.          *)
(***************************************************************************)
ReplyEvents == {FunDay, Invented, NoCost, NullTitle}

\* what a chat-completion call asked for a JSON newsletter gives back
ContentReply(ok, has_events, evs) == [ok |-> ok, has_events |-> has_events, events |-> evs]
ContentReplies ==
    {ContentReply(FALSE, FALSE, <<>>), ContentReply(TRUE, FALSE, <<>>)}
    \cup {ContentReply(TRUE, TRUE, evs) : evs \in SeqsUpTo(ReplyEvents, MaxEvents)}

Range(evs) == {evs[i] : i \in 1..Len(evs)}

\* AIService.generate_newsletter after the search and the completion:
\* the events of the NewsletterContent it returns, or a raise
GenerateNewsletter(reply, events) ==
    LET out == IF reply.ok
               THEN ValidateAndEnhanceContent(reply.has_events, reply.events, events)
               ELSE [raised |-> TRUE, events |-> <<>>]
    IN  IF out.raised \/ \E e \in Range(out.events) : ~EventDetailsValid(e)
        THEN [raised |-> TRUE, events |-> <<>>]
        ELSE out

\* AIService.update_newsletter after the completion: the guard is given the
\* reply's own events as the verified list
UpdateNewsletterContent(reply) ==
    LET out == IF reply.ok
               THEN ValidateAndEnhanceContent(reply.has_events, reply.events,
                        IF reply.has_events THEN reply.events ELSE <<>>)
               ELSE [raised |-> TRUE, events |-> <<>>]
    IN  IF out.raised \/ \E e \in Range(out.events) : ~EventDetailsValid(e)
        THEN [raised |-> TRUE, events |-> <<>>]
        ELSE out

\* POST /generate: insert the document and start generate_newsletter_task
CreateNewsletter ==
    /\ newsletter.status = "absent"
    /\ newsletter' = [status |-> "generating", version |-> 1, events |-> <<>>]
    /\ task' = [pc |-> "search", events |-> <<>>]
    /\ UNCHANGED <<searched, upd, svcVars, guardVars, extVars>>

\* the task's await of event_scraper.search_events, then the API-key check
TaskSearch ==
    /\ task.pc = "search"
    /\ \E evs \in SearchResults :
          /\ searched' = searched \cup Range(evs)
          /\ IF credential
             THEN /\ task' = [pc |-> "generate", events |-> evs]
                  /\ UNCHANGED newsletter
             ELSE /\ task' = [pc |-> "done", events |-> evs]
                  /\ newsletter' = [newsletter EXCEPT !.status = "error"]
    /\ UNCHANGED <<upd, svcVars, guardVars, extVars>>

\* the completion returns; the task stores the content or the error
TaskGenerate ==
    /\ task.pc = "generate"
    /\ \E reply \in ContentReplies :
          LET out == GenerateNewsletter(reply, task.events)
          IN  IF out.raised
              THEN /\ newsletter' = [newsletter EXCEPT !.status = "error"]
                   /\ task' = [task EXCEPT !.pc = "done"]
              ELSE /\ newsletter' = [newsletter EXCEPT !.status = "generated",
                                                       !.events = out.events]
                   /\ task' = [task EXCEPT !.pc = "notify"]
    /\ UNCHANGED <<searched, upd, svcVars, guardVars, extVars>>

\* the task tells the conversation that the newsletter is there
TaskNotify ==
    /\ task.pc = "notify"
    /\ conversation' = Push(conversation, <<"assistant">>)
    /\ task' = [task EXCEPT !.pc = "done"]
    /\ UNCHANGED <<newsletter, searched, upd, chats, act, scraper>>
    /\ UNCHANGED <<svcVars, guardVars, chatVars, reasoning, images, ctxVars, toolrun>>

\* PUT /{id}/update up to the completion call: the document is read
UpdateRead(u) ==
    /\ upd[u].pc = "idle"
    /\ \A v \in 1..MaxUpdates : v < u => upd[v].pc # "idle"
    /\ newsletter.status # "absent"
    /\ upd' = [upd EXCEPT ![u] = [pc |-> IF credential THEN "llm" ELSE "failed",
                                  events |-> newsletter.events,
                                  version |-> newsletter.version]]
    /\ UNCHANGED <<newsletter, searched, task, svcVars, guardVars, extVars>>

\* the completion returns; the endpoint stores the content, or answers 500
UpdateWrite(u) ==
    /\ upd[u].pc = "llm"
    /\ \E reply \in ContentReplies :
          LET out == UpdateNewsletterContent(reply)
          IN  IF out.raised
              THEN /\ upd' = [upd EXCEPT ![u].pc = "failed"]
                   /\ UNCHANGED newsletter
              ELSE /\ upd' = [upd EXCEPT ![u].pc = "done"]
                   /\ newsletter' = [newsletter EXCEPT !.events = out.events,
                                                       !.version = upd[u].version + 1]
    /\ UNCHANGED <<searched, task, svcVars, guardVars, extVars>>

\* add_message and chat_with_ai up to their first write: find_one, 400 when closed
ChatRead(c, kind) ==
    /\ chats[c].pc = "idle"
    /\ \A d \in 1..MaxChats : d < c => chats[d].pc # "idle"
    /\ chats' = [chats EXCEPT ![c] =
                    [pc |-> IF conversation.status = "closed" THEN "rejected"
                            ELSE IF kind = "add_message" THEN "push" ELSE "ai",
                     kind |-> kind]]
    /\ UNCHANGED <<conversation, act, scraper, dbVars>>
    /\ UNCHANGED <<svcVars, guardVars, chatVars, reasoning, images, ctxVars, toolrun>>

\* add_message: update_one with the $push
AddMessageWrite(c) ==
    /\ chats[c].pc = "push"
    /\ conversation' = Push(conversation, <<"user">>)
    /\ chats' = [chats EXCEPT ![c].pc = "done"]
    /\ UNCHANGED <<act, scraper, dbVars>>
    /\ UNCHANGED <<svcVars, guardVars, chatVars, reasoning, images, ctxVars, toolrun>>

\* chat_with_ai: ai_service.chat_response returns or raises, then the $push
ChatWrite(c, ai_ok) ==
    /\ chats[c].pc = "ai"
    /\ conversation' = IF ai_ok THEN Push(conversation, <<"user", "assistant">>)
                                ELSE Push(conversation, <<"user">>)
    /\ chats' = [chats EXCEPT ![c].pc = IF ai_ok THEN "done" ELSE "failed"]
    /\ UNCHANGED <<act, scraper, dbVars>>
    /\ UNCHANGED <<svcVars, guardVars, chatVars, reasoning, images, ctxVars, toolrun>>

\* newsletter_action: update_one sets the status
NewsletterAction(action) ==
    /\ act.pc = "idle"
    /\ newsletter.status # "absent"
    /\ newsletter' = [newsletter EXCEPT !.status = ActionStatus(action)]
    /\ act' = [pc |-> "close", action |-> action]
    /\ UNCHANGED <<searched, task, upd, conversation, chats, scraper>>
    /\ UNCHANGED <<svcVars, guardVars, chatVars, reasoning, images, ctxVars, toolrun>>

\* newsletter_action: the conversation of the newsletter is closed
CloseConversation ==
    /\ act.pc = "close"
    /\ conversation' = [conversation EXCEPT !.status = "closed"]
    /\ act' = [act EXCEPT !.pc = "done"]
    /\ UNCHANGED <<chats, scraper, dbVars>>
    /\ UNCHANGED <<svcVars, guardVars, chatVars, reasoning, images, ctxVars, toolrun>>

InitNewsletters ==
    /\ InitStore
    /\ InitExt
    /\ InitService
    /\ impl = "base"
    /\ credential \in BOOLEAN
    /\ limit = 0
    /\ InitGuard

NextNewsletters ==
    \/ CreateNewsletter
    \/ TaskSearch
    \/ TaskGenerate
    \/ TaskNotify
    \/ \E u \in 1..MaxUpdates : UpdateRead(u)
    \/ \E u \in 1..MaxUpdates : UpdateWrite(u)

SpecNewsletters == InitNewsletters /\ [][NextNewsletters]_vars

\* the newsletter, its conversation and the accept or reject action
NextConversations ==
    \/ CreateNewsletter
    \/ TaskSearch
    \/ TaskGenerate
    \/ TaskNotify
    \/ \E c \in 1..MaxChats : \E kind \in ChatKinds : ChatRead(c, kind)
    \/ \E c \in 1..MaxChats : AddMessageWrite(c)
    \/ \E c \in 1..MaxChats : \E ai_ok \in BOOLEAN : ChatWrite(c, ai_ok)
    \/ \E action \in ActionNames : NewsletterAction(action)
    \/ CloseConversation

SpecConversations == InitNewsletters /\ [][NextConversations]_vars

\* the intent analysis of ChatService over its messages
InitChatIntent ==
    /\ chat_message \in ChatMessages
    /\ intent = NoIntent
    /\ reasoning = IdleReasoning
    /\ images = IdleImages
    /\ InitContext
    /\ InitMore
    /\ InitService
    /\ impl = "base"
    /\ credential = FALSE
    /\ limit = 0
    /\ InitGuard
    /\ InitStore

NextChatIntent == AnalyzeChatIntent

SpecChatIntent == InitChatIntent /\ [][NextChatIntent]_vars


\* chat_with_reasoning over its requests and the completions it may get
InitReasoning ==
    /\ \E m \in ReasoningRequests : reasoning = [IdleReasoning EXCEPT !.pc = "start",
                                                                     !.user_message = m]
    /\ InitChat
    /\ images = IdleImages
    /\ InitContext
    /\ InitMore
    /\ InitService
    /\ impl = "base"
    /\ credential = TRUE
    /\ limit = 0
    /\ InitGuard
    /\ InitStore

NextReasoning ==
    \/ FirstCompletion
    \/ ExecuteTools
    \/ FinalCompletion

SpecReasoning == InitReasoning /\ [][NextReasoning]_vars

\* the images validator over its inputs
InitImages ==
    /\ \E v \in ImageInputs : images = [IdleImages EXCEPT !.input = v]
    /\ InitContext
    /\ InitMore
    /\ InitChat
    /\ reasoning = IdleReasoning
    /\ InitService
    /\ impl = "base"
    /\ credential = FALSE
    /\ limit = 0
    /\ InitGuard
    /\ InitStore

NextImages == ValidateImages

SpecImages == InitImages /\ [][NextImages]_vars

\* set_user_preferences over sequences of supplied maps
InitPreferences ==
    /\ InitService
    /\ impl = "base"
    /\ credential = FALSE
    /\ limit = 0
    /\ InitGuard
    /\ InitStore
    /\ InitExt

NextPreferences == \E p \in PreferenceMaps : SetPreferences(p)

SpecPreferences == InitPreferences /\ [][NextPreferences]_vars

\* the endpoints of context_chat.py with two clients
InitEndpoints ==
    /\ InitService
    /\ impl = "base"
    /\ credential \in BOOLEAN
    /\ limit = MaxRequests
    /\ InitGuard
    /\ InitStore
    /\ InitExt

NextEndpoints ==
    \/ \E c \in Clients : \E m \in ClientMessages(c) : \E x \in ClientContexts :
          ContextChat(c, m, x)
    \/ \E c \in Clients : ContextChatResumes(c)
    \/ SetPreferences([tone |-> "formal"])
    \/ ResetContext

SpecEndpoints == InitEndpoints /\ [][NextEndpoints]_vars

\* search_events over radii, frequencies, locations and provider results
InitScraper ==
    /\ \E t \in 0..(TicksPerDay - 1) : scraper = [IdleScraper EXCEPT !.now = Stamp(Today, t)]
    /\ InitService
    /\ impl = "base"
    /\ credential = FALSE
    /\ limit = 0
    /\ InitGuard
    /\ InitStore
    /\ InitChat
    /\ reasoning = IdleReasoning
    /\ images = IdleImages
    /\ InitContext
    /\ InitConversation
    /\ toolrun = IdleToolRun

NextScraper ==
    \/ \E r \in Radii : \E f \in Frequencies : SearchEvents(r, f)
    \/ \E found \in BOOLEAN : \E d \in 0..1 : LocationReturns(found, d)
    \/ \E o \in GatherOutcomes : ProvidersReturn(o)
    \/ CollectEventsAndReturn

SpecScraper == InitScraper /\ [][NextScraper]_vars

\* the same, where a collaborator that was awaited does return
FairScraper == SpecScraper /\ WF_vars(NextScraper)

\* overlapping requests on a service with a credential, its history one turn
\* short of the cap
EarlierTurn ==
    [timestamp |-> 0, user_message |-> {}, action_taken |-> "respond_in_chat",
     target |-> "chat", result_summary |-> ResultSummary(Result("chat_response", Missing, <<>>, 120))]

EarlierTurns(n) == [i \in 1..n |-> EarlierTurn]

EarlierLengths == {HistoryCap - 1}

InitOverlap ==
    /\ conversation_history \in {EarlierTurns(n) : n \in EarlierLengths}
    /\ current_newsletter_state = NoNewsletter
    /\ req = [s \in Slots |-> FreeSlot]
    /\ running = 0
    /\ clock = 0
    /\ impl \in Impls
    /\ credential = TRUE
    /\ limit = MaxRequests
    /\ InitGuard
    /\ InitStore
    /\ InitExt

OverlapInputs ==
    {<<{"find events"}, NoContext>>, <<{"what is"}, NoContext>>, <<{}, NoContext>>,
     <<NotAStr, NoContext>>, <<DirectRequest, PostcodeContext>>}

NextOverlap ==
    \/ \E s \in Slots : \E i \in OverlapInputs : Submit(s, i[1], i[2])
    \/ \E s \in Slots : ExtractContext(s)
    \/ \E s \in Slots : AnalyzeIntent(s)
    \/ \E s \in Slots : Escalate(s, Replies)
    \/ \E s \in Slots : Dispatch(s)
    \/ \E s \in Slots : SearchReturns(s)
    \/ \E s \in Slots : WebReturns(s)
    \/ \E s \in Slots : UpdateContextMemory(s)
    \/ \E s \in Slots : Return(s)

SpecOverlap == InitOverlap /\ [][NextOverlap]_vars

\* the newsletter handlers of the orchestrator on a state that a generation
\* has stored, or on none
StoredStates ==
    {NoNewsletter}
    \cup {[exists |-> TRUE, events |-> evs, tone |-> Missing] : evs \in SearchResults}

StoredInputs ==
    {<<{"add events"}, NoContext>>, <<{"generate a newsletter", "weekly"}, NoContext>>,
     <<{"generate a newsletter", "weekly"}, PostcodeContext>>}

InitStored ==
    /\ conversation_history = <<>>
    /\ current_newsletter_state \in StoredStates
    /\ req = [s \in Slots |-> FreeSlot]
    /\ running = 0
    /\ clock = 0
    /\ impl \in Impls
    /\ credential = TRUE
    /\ limit = MaxRequests
    /\ InitGuard
    /\ InitStore
    /\ InitExt

NextStored ==
    \/ \E s \in Slots : \E i \in StoredInputs : Submit(s, i[1], i[2])
    \/ \E s \in Slots : ExtractContext(s)
    \/ \E s \in Slots : AnalyzeIntent(s)
    \/ \E s \in Slots : Dispatch(s)
    \/ \E s \in Slots : SearchReturns(s)
    \/ \E s \in Slots : UpdateContextMemory(s)
    \/ \E s \in Slots : Return(s)

SpecStored == InitStored /\ [][NextStored]_vars

\* the tool calls of chat_with_reasoning over the replies of the provider
NextTools ==
    \/ \E tool_calls \in ToolCallLists : FirstReplyHoldsToolCalls(tool_calls)
    \/ \E returns \in BOOLEAN : ExecuteToolCall(returns)
    \/ RequestFinalCompletion
    \/ \E ok \in BOOLEAN : FinalCompletionReturns(ok)

SpecTools == InitNewsletters /\ [][NextTools]_vars

(***************************************************************************)
(* The claims.                                                             *)
(***************************************************************************)

\* C1: every event stored in the newsletter's content.events was returned by
\* the search provider; an event only the generative provider wrote is
\* never stored.  (SpecNewsletters)
C1_StoredEventsWereSearched ==
    \A e \in Range(newsletter.events) : e \in searched

RECURSIVE IsSubsequence(_, _)
IsSubsequence(a, b) ==
    IF a = <<>> THEN TRUE
    ELSE IF b = <<>> THEN FALSE
    ELSE IF Head(a) = Head(b) THEN IsSubsequence(Tail(a), Tail(b))
    ELSE IsSubsequence(a, Tail(b))

Complete(e) ==
    /\ e.event_title \notin {Missing, Null, ""}
    /\ e.description \notin {Missing, Null, ""}
    /\ e.location \notin {Missing, Null, ""}
    /\ e.date \notin {Missing, Null, ""}

CollaboratorFailures ==
    {"The api_key client option must be set",
     "'AIService' object has no attribute 'generate_newsletter_content'",
     "Request timed out.", "timed out"}

\* C3: when a collaborator called by a handler throws, the envelope of the
\* request has success = false and a non-empty error.  (Spec)
C3_CollaboratorFailureIsReported ==
    \A s \in Slots :
        (req[s].pc = "done" /\ req[s].result.error \in CollaboratorFailures) =>
            /\ req[s].envelope.success = FALSE
            /\ "error" \in DOMAIN req[s].envelope
            /\ req[s].envelope.error # ""

C5_HistoryBoundedFifo ==
    /\ [](/\ Len(conversation_history) <= HistoryCap
          /\ \A i \in 1..Len(conversation_history) :
                conversation_history[i].timestamp =
                    conversation_history[Len(conversation_history)].timestamp
                        - Len(conversation_history) + i)
    /\ [][/\ conversation_history' # conversation_history =>
                \E s \in Slots : req[s].pc = "record" /\ req'[s].pc = "return"
          /\ \A s \in Slots :
                (req[s].pc = "record" /\ req'[s].pc = "return") =>
                    /\ conversation_history' # <<>>
                    /\ conversation_history'[Len(conversation_history')].timestamp = clock
                    /\ conversation_history'[Len(conversation_history')].user_message
                            = req[s].user_message
                    /\ IF Len(conversation_history) < HistoryCap
                       THEN /\ Len(conversation_history') = Len(conversation_history) + 1
                            /\ SubSeq(conversation_history', 1, Len(conversation_history))
                                   = conversation_history
                       ELSE /\ Len(conversation_history') = HistoryCap
                            /\ SubSeq(conversation_history', 1, HistoryCap - 1)
                                   = Tail(conversation_history)]_vars

C5_Witness ==
    /\ Len(conversation_history) = HistoryCap
    /\ conversation_history[1].timestamp > 1

Recorded(n) ==
    /\ conversation_history # <<>>
    /\ conversation_history[Len(conversation_history)].timestamp = n

\* C6, as claimed: after 60 recorded turns get_conversation_history returns
\* the 50 most recent turns in chronological order.  (SpecHistory)
C6_AccessorReturnsFifty ==
    Recorded(60) =>
        LET recent == GetConversationHistory(conversation_history)
        IN  /\ Len(recent) = 50
            /\ \A i \in 1..Len(recent) : recent[i].timestamp = 10 + i

\* C6, amended: after 60 recorded turns the store holds the 50 most recent
\* turns (11..60) in chronological order, the earliest 10 evicted, and
\* get_conversation_history returns the 10 most recent of them (51..60) in
\* chronological order.  (SpecHistory)
C6_AccessorReturnsLastTen ==
    Recorded(60) =>
        LET recent == GetConversationHistory(conversation_history)
        IN  /\ Len(conversation_history) = 50
            /\ \A i \in 1..Len(conversation_history) :
                  conversation_history[i].timestamp = 10 + i
            /\ Len(recent) = 10
            /\ \A i \in 1..Len(recent) : recent[i].timestamp = 50 + i

C6_Witness == Recorded(60)

NewsletterActions ==
    {"generate_newsletter", "add_events", "change_tone", "delete_events",
     "update_newsletter"}
Targets == {"chat", "newsletter", "system"}

\* C7: every decision of the intent analysis whose action type changes the
\* newsletter has target "newsletter".  (SpecIntent)
C7_NewsletterActionsTargetNewsletter ==
    \A s \in Slots :
        (req[s].pc = "dispatch" /\ req[s].action_decision.action_type \in NewsletterActions)
            => req[s].action_decision.target = "newsletter"

\* C8: every decision that reaches the dispatcher has a target in
\* {chat, newsletter, system}.  (SpecIntent)
C8_TargetInClosedSet ==
    \A s \in Slots :
        req[s].pc = "dispatch" => req[s].action_decision.target \in Targets

\* C9: whenever the escalation call fails (no client, a failed call, a reply
\* that is no JSON or lacks a key, an action type outside the enum), the
\* analysis returns the rule-based decision unchanged and the request is at
\* the dispatcher, not failed.  (SpecIntent)
C9_EscalationFallsBack ==
    \A s \in Slots :
        req[s].escalation = "failed" =>
            /\ req[s].pc = "dispatch"
            /\ req[s].outcome = "pending"
            /\ req[s].raised = "none"
            /\ req[s].action_decision = req[s].rule_based_decision
            /\ req[s].action_decision =
                  _rule_based_intent_analysis(impl, req[s].user_message, req[s].context)

C9_Witness ==
    \E s \in Slots :
        /\ req[s].escalation = "failed"
        /\ ~credential
        /\ req[s].pc = "dispatch"

\* C10: a decision whose action type has no handler gives an envelope with
\* success = false and the error "Unknown action type".  (Spec)
C10_UnknownActionIsReported ==
    \A s \in Slots :
        (/\ req[s].pc = "done"
         /\ req[s].raised = "none"
         /\ req[s].action_decision.action_type \notin Handlers(impl)) =>
            /\ req[s].envelope.success = FALSE
            /\ "error" \in DOMAIN req[s].envelope
            /\ req[s].envelope.error = "Unknown action type"

\* the rule groups by name, in the claimed order
ClaimedOrder ==
    <<"web_search", "event_search", "event_management", "newsletter_customization",
      "content_generation", "tool_execution", "help">>
PatternsOf(type) ==
    CASE type = "web_search" -> web_search_patterns
      [] type = "event_search" -> event_patterns
      [] type = "event_management" -> event_management_patterns
      [] type = "newsletter_customization" -> customization_patterns
      [] type = "content_generation" -> content_patterns
      [] type = "tool_execution" -> tool_patterns
      [] type = "help" -> help_patterns
Matches(type, message) ==
    \E n \in 1..Len(PatternsOf(type)) : Search(PatternsOf(type)[n], Lower(message)).ok
Classified == intent # NoIntent

\* C11: _analyze_intent returns the kind of the first group, in the order
\* web_search, event_search, event_management, newsletter_customization,
\* content_generation, tool_execution, help, that has a matching pattern; a
\* message that matches a web-search pattern is web_search whatever later
\* groups it matches.  (SpecChatIntent)
C11_FirstGroupInOrder ==
    Classified =>
        /\ \A g \in 1..Len(ClaimedOrder) :
              (/\ Matches(ClaimedOrder[g], chat_message)
               /\ \A h \in 1..(g - 1) : ~Matches(ClaimedOrder[h], chat_message))
                  => intent.type = ClaimedOrder[g]
        /\ Matches("web_search", chat_message) => intent.type = "web_search"

C11_Witness ==
    /\ Classified
    /\ Matches("web_search", chat_message)
    /\ Matches("event_search", chat_message)
    /\ intent.type = "web_search"

\* C12: "find events in TS1 3BA" is classified event_search, its location
\* slot holds the lower-cased postcode and its confidence is in
\* [0.7, 0.9].  (SpecChatIntent)
C12_FindEventsIsEventSearch ==
    (Classified /\ chat_message = <<"find", "events", "in", "TS1", "3BA">>) =>
        /\ intent.type = "event_search"
        /\ intent.slot = "location"
        /\ Contains(intent.value, <<"ts1", "3ba">>)
        /\ intent.confidence \in 70..90

\* C13: _analyze_intent returns general with confidence 0.5 exactly when no
\* group matches; otherwise the confidence is in [0.7, 0.9] and is the fixed
\* value of the matched group, whatever the message.  (SpecChatIntent)
C13_ConfidenceFixedPerGroup ==
    Classified =>
        /\ intent.type = "general" <=>
              \A g \in 1..Len(ClaimedOrder) : ~Matches(ClaimedOrder[g], chat_message)
        /\ intent.type = "general" => intent.confidence = 50
        /\ intent.type # "general" =>
              /\ intent.confidence \in 70..90
              /\ intent.confidence =
                    CASE intent.type \in {"web_search", "event_search", "help"} -> 90
                      [] intent.type = "tool_execution" -> 70
                      [] OTHER -> 80

C13_Witness ==
    /\ Classified
    /\ chat_message = <<"asdkjasd">>
    /\ intent.type = "general"
    /\ intent.confidence = 50

\* the messages that ask for a weekly or monthly newsletter
NewsletterRequests ==
    {WeeklyRequest, DirectRequest, {"generate a newsletter", "weekly"}}

\* C14: a message asking to generate a weekly or monthly newsletter is
\* decided as generate_newsletter; the response has action_taken =
\* generate_newsletter and a result counting the provider's events, and the
\* stored newsletter state holds the provider's list as it was returned.  (Spec)
C14_GenerateEndToEnd ==
    \A s \in Slots :
        (req[s].pc = "done" /\ req[s].user_message \in NewsletterRequests) =>
            /\ req[s].envelope.success
            /\ req[s].envelope.action_taken = "generate_newsletter"
            /\ req[s].envelope.result.type = "newsletter"
            /\ current_newsletter_state.exists
            /\ current_newsletter_state.events = req[s].envelope.result.events
            /\ Range(current_newsletter_state.events) \subseteq ProviderEvents

\* C15: a message returned by chat_with_reasoning for a user message that
\* concerns events holds no fabrication signature: a generated text that
\* matches one is replaced by the fixed safe message, after tool calls and
\* without tool calls alike; for a user message that does not concern events
\* the generated text is returned unchanged.  (SpecReasoning)
C15_NoFabricationReturned ==
    (reasoning.pc = "returned" /\ reasoning.path \in {"tools", "direct"}) =>
        IF AsksForEvents(reasoning.user_message)
        THEN /\ ~HasIndicator(reasoning.message)
             /\ reasoning.message =
                   IF HasIndicator(reasoning.generated) THEN SafeMessage
                   ELSE reasoning.generated
        ELSE reasoning.message = reasoning.generated

IsUrl(img) == img.is_str /\ img.starts \in {"http://", "https://"}
IsBareImageFile(img) ==
    img.is_str /\ ~IsUrl(img) /\ img.ends \in {".jpg", ".png", ".jpeg"}

SuppliedTo(i) == SelectSeq(supplied, LAMBDA e : e.service = i)
LastWith(maps, k) ==
    CHOOSE n \in 1..Len(maps) :
        /\ k \in DOMAIN maps[n].preferences
        /\ \A m \in (n + 1)..Len(maps) : k \notin DOMAIN maps[m].preferences

\* C17: after any sequence of set_user_preferences calls the stored
\* preferences are the right-biased union of the supplied maps: they hold
\* exactly the keys some call supplied (none is ever removed), each with the
\* value of the last call that supplied it.  (SpecPreferences)
C17_PreferencesAreRightBiasedUnion ==
    \A i \in 1..Len(orchestrators) :
        LET maps == SuppliedTo(i)
            stored == orchestrators[i].user_preferences
        IN  /\ DOMAIN stored = UNION {DOMAIN maps[n].preferences : n \in 1..Len(maps)}
            /\ \A k \in DOMAIN stored : stored[k] = maps[LastWith(maps, k)].preferences[k]

C17_Witness ==
    /\ Len(supplied) = 2
    /\ DOMAIN supplied[1].preferences = {"tone", "style"}
    /\ DOMAIN supplied[2].preferences = {"tone"}
    /\ supplied[1].preferences["tone"] # supplied[2].preferences["tone"]
    /\ orchestrators[1].user_preferences["tone"] = supplied[2].preferences["tone"]
    /\ orchestrators[1].user_preferences["style"] = supplied[1].preferences["style"]

\* C18, as claimed: every result_summary stored in conversation_history is
\* at most 200 characters long.  (Spec)
C18_SummaryWithinBudget ==
    \A n \in 1..Len(conversation_history) :
        conversation_history[n].result_summary.len <= SummaryBudget

\* C18, amended: every stored result_summary is at most 203 characters long:
\* str(result) itself when that has at most 200 characters, and otherwise
\* its first 200 characters followed by "...".  (Spec)
C18_SummaryWithinBudgetPlusEllipsis ==
    /\ \A n \in 1..Len(conversation_history) :
          LET len == conversation_history[n].result_summary.len
          IN  len <= SummaryBudget + 3 /\ (len > SummaryBudget => len = SummaryBudget + 3)
    /\ \A s \in Slots :
          req[s].pc = "return" =>
              conversation_history[Len(conversation_history)].result_summary.len =
                  IF req[s].result.strlen <= SummaryBudget
                  THEN req[s].result.strlen ELSE SummaryBudget + 3

C18_Witness ==
    \E s \in Slots :
        /\ req[s].pc = "return"
        /\ req[s].result.strlen > SummaryBudget + 3
        /\ conversation_history[Len(conversation_history)].result_summary.len
              = SummaryBudget + 3

\* C19: conversations are isolated: the conversation_history a /context-chat
\* client is answered with holds only turns of that client's own messages,
\* never a turn recorded for a client with another session_id or user_id.
\* (SpecEndpoints)
C19_SessionsIsolated ==
    \A c \in Clients :
        calls[c].pc = "done" =>
            \A n \in 1..Len(calls[c].response.conversation_history) :
                calls[c].response.conversation_history[n].user_message
                    \in ClientMessages(c)

\* the object a step of a /context-chat request or of /set-preferences works on
Bound(i) ==
    \/ \E c \in Clients : calls'[c] # calls[c] /\ calls'[c].service = i
    \/ supplied' # supplied /\ supplied'[Len(supplied')].service = i

OwnWritesOnly(object) ==
    /\ object.current_newsletter_state = NoNewsletter
    /\ Len(object.conversation_history) <= 1
    /\ \A n \in 1..Len(object.conversation_history) :
          \E c \in Clients :
              /\ calls'[c] # calls[c]
              /\ object.conversation_history[n].user_message = calls'[c].user_message
    /\ \/ object.user_preferences = NoPreferences
       \/ /\ supplied' # supplied
          /\ object.user_preferences = supplied'[Len(supplied')].preferences

\* C20: POST /reset-context leaves the global unset and every object as it
\* is; the first request after it is served by a newly created object that
\* holds nothing but what this request writes (empty conversation history, no
\* newsletter state, empty preferences before it); the global never names an
\* older object again; and a request changes only the object it was bound
\* to when it started, so a /context-chat request that was in flight at the
\* reset writes its turn and its newsletter into the old object, never into
\* the new one.  (SpecEndpoints)
C20_ResetGivesFreshObject ==
    [][/\ context_ai_service' \in {NoService, Len(orchestrators')}
       /\ (context_ai_service # NoService /\ context_ai_service' = NoService)
             => UNCHANGED <<orchestrators, calls, supplied>>
       /\ (context_ai_service = NoService /\ context_ai_service' # NoService)
             => /\ Len(orchestrators') = Len(orchestrators) + 1
                /\ SubSeq(orchestrators', 1, Len(orchestrators)) = orchestrators
                /\ OwnWritesOnly(orchestrators'[context_ai_service'])
       /\ \A i \in 1..Len(orchestrators) :
             orchestrators'[i] # orchestrators[i] => Bound(i)
       /\ \A c \in Clients :
             calls[c].pc = "await_search" => calls'[c].service = calls[c].service
      ]_vars

C20_Witness ==
    \E c \in Clients : \E d \in Clients :
        /\ calls[c].pc = "await_search"
        /\ calls[c].service = 1
        /\ context_ai_service = 2
        /\ calls[d].pc = "done"
        /\ calls[d].service = 2
        /\ Len(calls[d].response.conversation_history) = 1
        /\ orchestrators[2].user_preferences = NoPreferences

WindowDays(frequency) == IF frequency \in {"weekly", "Weekly"} THEN WeeklyDays ELSE MonthlyDays

\* C21: every event search_events returns has a date that parses, and the
\* date lies between the now of the attempt that answered and 7 days after
\* it for a weekly search (30 days for any other frequency), and not before
\* the time of the call, whatever the sub-searches handed back and however
\* many retries there were.  (SpecScraper)
C21_EventsInsideWindow ==
    scraper.pc = "done" =>
        \A i \in 1..Len(scraper.outcome) :
            LET event_date == _parse_event_date(scraper.outcome[i].date)
            IN  /\ event_date # NoDate
                /\ scraper.called_at <= scraper.start_date
                /\ scraper.start_date <= event_date
                /\ event_date <= scraper.start_date + Days(WindowDays(scraper.frequency))

C21_Witness ==
    /\ scraper.pc = "done"
    /\ scraper.current_radius_attempt > 1
    /\ scraper.start_date > scraper.called_at
    /\ \E i \in 1..Len(scraper.outcome) :
          _parse_event_date(scraper.outcome[i].date) = scraper.start_date
    /\ \E i \in 1..Len(scraper.outcome) :
          _parse_event_date(scraper.outcome[i].date) = scraper.end_date

RECURSIVE Pow(_, _)
Pow(b, n) == IF n = 0 THEN 1 ELSE b * Pow(b, n - 1)

\* C22: search_events ends with a list and never raises: it makes at most 4
\* attempts, each retry with the attempt number one higher and the radius
\* multiplied by 1.5, a retry happens only after an attempt that found fewer
\* than 5 unique events, and when the location lookup or a step of its body
\* fails the answer is the empty list.  (FairScraper)
C22_TerminatesWithList ==
    /\ [](/\ scraper.current_radius_attempt <= MaxAttempts
          /\ ~scraper.raised
          /\ (scraper.pc = "done" /\ scraper.error # "none" => scraper.outcome = <<>>)
          /\ (scraper.current_radius_attempt >= 1 /\ scraper.radius # NotANumber
                => scraper.radius * Pow(2, scraper.current_radius_attempt - 1)
                     = scraper.first_radius * Pow(3, scraper.current_radius_attempt - 1)))
    /\ [][scraper.current_radius_attempt >= 1
            /\ scraper'.current_radius_attempt # scraper.current_radius_attempt
          => /\ scraper'.current_radius_attempt = scraper.current_radius_attempt + 1
             /\ scraper'.found < MinEvents
             /\ 2 * scraper'.radius = 3 * scraper.radius]_vars
    /\ <>(scraper.pc = "done")

C22_Witness ==
    /\ scraper.pc = "done"
    /\ scraper.current_radius_attempt = MaxAttempts
    /\ scraper.found < MinEvents
    /\ scraper.error = "none"
    /\ scraper.radius = 135

Succeeded(s) ==
    req[s].pc = "return" \/ (req[s].pc = "done" /\ req[s].raised = "none")

Whole(turn) ==
    DOMAIN turn = {"timestamp", "user_message", "action_taken", "target", "result_summary"}

\* a request that has returned gave its slot to a later one
Departed == clock > Cardinality({s \in Slots : req[s].seq > 0})

TurnOf(r, turn) ==
    /\ Whole(turn)
    /\ turn.user_message = r.user_message
    /\ turn.action_taken = r.action_decision.action_type
    /\ turn.target = r.action_decision.target
    /\ turn.result_summary = ResultSummary(r.result)

NewTurns == {i \in 1..Len(conversation_history) : conversation_history[i].timestamp > 0}

\* C23: with process_user_request calls overlapping at their awaits on one
\* service, the history never exceeds 50 turns, every turn in it is whole
\* (an earlier turn or the turn of a request),
\* every request that got past its record stage has its turn in the history,
\* there are never more new turns than requests that got that far, and the
\* history changes only by one request appending its one whole turn (the
\* oldest turn leaving when the cap is reached).  (SpecOverlap)
C23_OneWholeTurnPerRequest ==
    /\ [](/\ Len(conversation_history) <= HistoryCap
          /\ \A i \in 1..Len(conversation_history) :
                \/ conversation_history[i] = EarlierTurn
                \/ \E s \in Slots : TurnOf(req[s], conversation_history[i])
                \/ Departed /\ Whole(conversation_history[i])
          /\ \A s \in Slots :
                Succeeded(s) => \E i \in NewTurns : TurnOf(req[s], conversation_history[i])
          /\ Cardinality(NewTurns)
                <= clock - Cardinality({s \in Slots : req[s].pc \notin {"free", "done", "return"}})
                         - Cardinality({s \in Slots : req[s].pc = "done" /\ req[s].raised # "none"}))
    /\ [][conversation_history' # conversation_history =>
            \E s \in Slots :
                /\ req[s].pc = "record" /\ req'[s].pc = "return"
                /\ \A t \in Slots \ {s} : req'[t] = req[t]
                /\ TurnOf(req[s], conversation_history'[Len(conversation_history')])
                /\ \/ /\ Len(conversation_history) < HistoryCap
                      /\ conversation_history'
                            = Append(conversation_history,
                                     conversation_history'[Len(conversation_history')])
                   \/ /\ Len(conversation_history) = HistoryCap
                      /\ conversation_history'
                            = Append(Tail(conversation_history),
                                     conversation_history'[Len(conversation_history')])]_vars

\* the second request recorded its turn while the first was awaiting its
\* search, and the first one's turn evicted the oldest turn
C23_Witness ==
    /\ Len(conversation_history) = HistoryCap
    /\ conversation_history[HistoryCap - 2] = EarlierTurn
    /\ \E s, t \in Slots :
          /\ req[s].seq = 1 /\ req[t].seq = 2
          /\ req[s].pc = "done" /\ req[s].raised = "none"
          /\ req[t].pc = "done" /\ req[t].raised = "none"
          /\ req[s].user_message # req[t].user_message
          /\ TurnOf(req[t], conversation_history[HistoryCap - 1])
          /\ TurnOf(req[s], conversation_history[HistoryCap])

\* the stages a request has been through, read off its position:
\* process_user_request classifies, dispatches, records and returns, and an
\* exception that leaves a stage goes to the except clause, which returns
StagesPassed(r) ==
    CASE r.pc \in {"free", "extract", "classify", "escalate"} -> <<>>
      [] r.pc \in {"dispatch", "await_search", "await_web"} -> <<"classify">>
      [] r.pc = "record" -> <<"classify", "dispatch">>
      [] r.pc = "return" -> <<"classify", "dispatch", "record">>
      [] r.pc = "done" /\ r.raised = "none" -> <<"classify", "dispatch", "record", "return">>
      [] r.pc = "done" /\ r.raised # "none" -> <<"return">>

BearsEvents(result) == result.events # <<>>

StageRank(stage) ==
    CASE stage = "classify" -> 1
      [] stage = "dispatch" -> 2
      [] stage = "validate" -> 3
      [] stage = "record" -> 4
      [] stage = "return" -> 5

\* C24: the stages of a request come in the order classify, dispatch,
\* validate, record, return, each at most once, and a request that returned
\* an output bearing events went through all five.  (Spec)
C24_StagesInOrder ==
    \A s \in Slots :
        /\ \A i, j \in 1..Len(StagesPassed(req[s])) :
              i < j => StageRank(StagesPassed(req[s])[i]) < StageRank(StagesPassed(req[s])[j])
        /\ (req[s].pc = "done" /\ req[s].raised = "none" /\ BearsEvents(req[s].result))
              => StagesPassed(req[s])
                    = <<"classify", "dispatch", "validate", "record", "return">>

\* C27: the stored version is 1 plus the number of update_newsletter calls
\* that succeeded so far, whether they ran one after the other or
\* overlapped.  (SpecNewsletters)
C27_VersionCountsUpdates ==
    newsletter.status # "absent" =>
        newsletter.version = 1 + Cardinality({u \in 1..MaxUpdates : upd[u].pc = "done"})

StatusRank(status) ==
    CASE status = "absent" -> 0
      [] status = "generating" -> 1
      [] status \in {"generated", "error"} -> 2
      [] status \in {"accepted", "rejected"} -> 3

\* C25: the status of a newsletter only moves forward along generating,
\* then generated or error, then accepted or rejected; in particular the
\* background task never puts generated or error over accepted or
\* rejected.  (SpecConversations)
C25_StatusOnlyForward ==
    [][newsletter'.status # newsletter.status =>
          StatusRank(newsletter'.status) > StatusRank(newsletter.status)]_vars

\* C26: once the conversation is closed its messages stay as they are: no
\* add_message, chat_with_ai or background task appends to it, however the
\* closing interleaved with them.  (SpecConversations)
C26_NoMessageAfterClose ==
    [][conversation.status = "closed" =>
          conversation'.messages = conversation.messages]_vars

\* a step of request s inside its handler for the action type
HandlerStep(s, action_type) ==
    /\ req[s].pc \in {"dispatch", "await_search"}
    /\ req'[s] # req[s]
    /\ req[s].action_decision.action_type = action_type

IsPrefix(a, b) == Len(a) <= Len(b) /\ SubSeq(b, 1, Len(a)) = a

C29_AddEventsOnlyAppends ==
    [][\A s \in Slots :
          HandlerStep(s, "add_events") =>
              IF ~current_newsletter_state.exists
              THEN current_newsletter_state' = current_newsletter_state
              ELSE /\ IsPrefix(current_newsletter_state.events,
                               current_newsletter_state'.events)
                   /\ \A i \in 1..Len(current_newsletter_state'.events) :
                         i > Len(current_newsletter_state.events) =>
                             current_newsletter_state'.events[i].event_title
                                 \notin Titles(current_newsletter_state.events)
                   /\ current_newsletter_state'
                         = [current_newsletter_state EXCEPT
                               !.events = current_newsletter_state'.events]]_vars

\* add_events found one event the newsletter had and one it had not
C29_Witness ==
    \E s \in Slots :
        /\ req[s].pc = "done"
        /\ req[s].action_decision.action_type = "add_events"
        /\ Len(req[s].result.events) = 1
        /\ Len(current_newsletter_state.events) = 2
        /\ current_newsletter_state.events[2] = req[s].result.events[1]
        /\ DateRank(current_newsletter_state.events[2])
              < DateRank(current_newsletter_state.events[1])

ToolAnswers(id) ==
    {j \in 1..Len(toolrun.messages) :
        toolrun.messages[j].role = "tool" /\ toolrun.messages[j].tool_call_id = id}

\* C30: when the final completion is requested, the messages hold exactly
\* one tool message for every tool call of the first reply, with the id of
\* that call, whether its function returned, raised or does not exist.
\* (SpecTools)
C30_EveryToolCallAnswered ==
    toolrun.pc = "final" =>
        \A k \in 1..Len(toolrun.tool_calls) :
            Cardinality(ToolAnswers(toolrun.tool_calls[k].id)) = 1

====
